---- MODULE Spec2Model ----
(***************************************************************************)
(* A model of hzjken/crypto-arbitrage-framework.                           *)
(*                                                                         *)
(*   Spec     PathOptimizer.find_arbitrage called repeatedly on one        *)
(*            optimizer (src/crypto/path_optimizer.py).                    *)
(*   SpecAmt  an AmtOptimizer built on that optimizer after its first      *)
(*            find_arbitrage, and get_solution called on it                *)
(*            (src/crypto/amount_optimizer.py).                            *)
(*                                                                         *)
(* Numbers.  Prices, commissions and (1 - commission) are fixed-point      *)
(* numbers with unit One (the value v stands for v / One) and are powers   *)
(* of two, so that np.log becomes the exact base-2 logarithm Log and the   *)
(* objective stays an integer.  np.log(0) = -inf is NegInf.  A node        *)
(* 'exc_coin' is the pair <<exc, coin>>.  An amount of a coin is a whole   *)
(* number of units of 10^-5 coin, the finest step of the amount model, and *)
(* the price oracle quotes one such unit.                                  *)
(***************************************************************************)
EXTENDS Integers, Sequences, FiniteSets, TLC

VARIABLES
    \* ---- PathOptimizer: configuration (set_params) ----
    params,                 \* the keyword arguments of the constructor, <<name, value>>
    exchanges,              \* exchange name -> [currencies, markets]
    path_length,
    refresh_time,
    consider_init_bal,
    \* ---- PathOptimizer: state ----
    run_times,
    currency_set,
    currency2index,
    index2currency,
    inter_convert_list,
    var_location,
    withdrawal_fee,
    crypto_prices,
    commission_matrix,
    balance_dict,
    price,
    transit_price_matrix,
    vol_matrix,
    required_currencies,
    changeable,             \* the constraint named 'changeable' of the model
    xs,
    path,
    objective_value,
    obj,
    raised,                 \* the exception the last call ended with, or "none"
    trace,                  \* the routines the last call ran, in order
    fetch_errors,           \* the fetches of the last call that raised in their thread
    \* ---- AmtOptimizer ----
    pair_info,
    precision,
    orderbook_n,
    amt_path,               \* AmtOptimizer.path
    fetched_order_book_list,
    path_commission,
    order_book,
    reverse_list,
    precision_matrix,
    amt_matrix,
    price_matrix,
    balance_vol,
    feasible_set,           \* the assignments that satisfy the constraints of the model
    solution,               \* the values of x and y the solver returned
    amt_objective_value,    \* AmtOptimizer.objective_value
    trade_solution,
    amt_raised,             \* the exception the last get_solution ended with,
                            \* "none" if it returned, None before the first one
    solve_times,            \* the number of get_solution calls so far
    \* ---- TradeExecutor ----
    exec_solution,          \* the solution handed to execute: the trade keys, in order
    tasks,                  \* [intra: task number -> legs, inter_ex: legs]
    event,                  \* the threading.Event of killable_multiThread
    threads,                \* thread -> [pos, at]: the leg it is at, and where
    outputList,             \* <<num, output>> in the order the threads ended
    orders,                 \* leg -> what became of its order
    withdrawals,            \* the legs withdrawn so far, in order
    stage,                  \* where execute is
    \* ---- utils.multiThread ----
    List,                   \* the input list of the call
    threadNum,              \* the number of threads of the call
    line,                   \* the threads started: thread -> inputs it has handled
    appended,               \* outputList: <<num, output>> in the order appended
    returned,               \* the list multiThread returned
    mt_stage,               \* where multiThread is
    \* ---- utils.get_crypto_prices ----
    coin_sets,              \* the coin_set of each call of the chain, outermost first
    response,               \* the last response of the oracle
    gcp_output,             \* output of the outermost call: <<symbol, price>>
    gcp_raised,             \* the exception the chain ended with, "none" if none
    gcp_stage               \* where get_crypto_prices is

pvars == <<params, exchanges, path_length, refresh_time, consider_init_bal, run_times,
           currency_set, currency2index, index2currency, inter_convert_list,
           var_location, withdrawal_fee, crypto_prices, commission_matrix,
           balance_dict, price, transit_price_matrix, vol_matrix,
           required_currencies, changeable, xs, path, objective_value, obj,
           raised, trace, fetch_errors>>

avars == <<pair_info, precision, orderbook_n, amt_path, path_commission,
           fetched_order_book_list,
           order_book, reverse_list, precision_matrix, amt_matrix, price_matrix,
           balance_vol, feasible_set, solution, amt_objective_value, trade_solution,
           amt_raised, solve_times>>

evars == <<exec_solution, tasks, event, threads, outputList, orders, withdrawals,
           stage>>

uvars == <<List, threadNum, line, appended, returned, mt_stage,
           coin_sets, response, gcp_output, gcp_raised, gcp_stage>>

vars == <<pvars, avars, evars, uvars>>

-----------------------------------------------------------------------------
(* Bounds and fixed-point arithmetic *)

\* find_arbitrage is called at most MaxRuns times
MaxRuns == 3

\* the fixed-point unit: a price, a commission or a rate v stands for v / One
One == 128

\* np.log(0)
NegInf == -1000

None == "None"

\* None where a number is expected (a ticker without baseVolume, a coin without price)
NoNumber == -1

RECURSIVE ILog2(_)
ILog2(n) == IF n <= 1 THEN 0 ELSE 1 + ILog2(n \div 2)

\* np.log of the fixed-point number v, in base 2
Log(v) == IF v <= 0 THEN NegInf ELSE ILog2(v) - ILog2(One)

RECURSIVE Pow2(_)
Pow2(n) == IF n <= 0 THEN 1 ELSE 2 * Pow2(n - 1)

\* np.exp(o) - 1 as a fixed-point number (base 2, as Log)
ExpM1(o) == IF o >= 0 THEN One * Pow2(o) - One ELSE (One \div Pow2(-o)) - One

RECURSIVE SumOver(_, _)
SumOver(S, f) ==
    IF S = {} THEN 0
    ELSE LET e == CHOOSE e \in S : TRUE IN f[e] + SumOver(S \ {e}, f)

Range(s) == {s[k] : k \in DOMAIN s}

-----------------------------------------------------------------------------
(* Defaults of set_params *)

include_fiat == FALSE
fiat_set == {"USD"}
inter_exchange_trading == TRUE
consider_inter_exc_bal == TRUE
\* (default 100; 8 makes a fee of 4 USD a rate of one half)
interex_trading_size == 8
min_trading_limit == 10
\* trading_fee of crypto/info.py: here every exchange takes one half of a trade,
\* the one commission below 1 that keeps 1 - commission a power of two
trading_fee == [e \in {"X", "Y"} |-> One \div 2]
\* update_vol_matrix(percentile=0.01): one part in PercentileDiv
PercentileDiv == 100

-----------------------------------------------------------------------------
(* The exchanges handed to the constructor *)

\* precision is info['precision']['amount'] of each market, NoNumber where the
\* exchange gives none
\* two exchanges listing the same pair: inter-exchange transfers of A and B
PairExchanges ==
    [X |-> [currencies |-> {"A", "B", "USD"}, markets |-> {<<"A", "B">>},
            precision |-> [m \in {<<"A", "B">>} |-> 5]],
     Y |-> [currencies |-> {"A", "B"},        markets |-> {<<"A", "B">>},
            precision |-> [m \in {<<"A", "B">>} |-> 5]]]

\* two exchanges, each with a triangle of pairs, no currency in common
TriExchanges ==
    [X |-> [currencies |-> {"A", "B", "C"},
            markets |-> {<<"A", "B">>, <<"B", "C">>, <<"A", "C">>},
            precision |-> [m \in {<<"A", "B">>, <<"B", "C">>, <<"A", "C">>} |->
                              IF m = <<"B", "C">> THEN 4 ELSE 5]],
     Y |-> [currencies |-> {"D", "E", "F"},
            markets |-> {<<"D", "E">>, <<"E", "F">>, <<"D", "F">>},
            precision |-> [m \in {<<"D", "E">>, <<"E", "F">>, <<"D", "F">>} |->
                              NoNumber]]]

ExchangeNames == <<"X", "Y">>
CoinNames == <<"A", "B", "C", "D", "E", "F", "USD">>

\* the order in which dict and list iteration meets the nodes
Rank(n) ==
    LET e == CHOOSE k \in DOMAIN ExchangeNames : ExchangeNames[k] = n[1]
        c == CHOOSE k \in DOMAIN CoinNames : CoinNames[k] = n[2]
    IN  e * 10 + c

RECURSIVE SortByRank(_)
SortByRank(S) ==
    IF S = {} THEN <<>>
    ELSE LET m == CHOOSE m \in S : \A o \in S : Rank(m) <= Rank(o)
         IN  <<m>> \o SortByRank(S \ {m})

Reverse(s) == [k \in DOMAIN s |-> s[Len(s) + 1 - k]]

\* enumerate(set): Python fixes no iteration order for a set; two orders are tried
Enumerations(S) == {SortByRank(S), Reverse(SortByRank(S))}

-----------------------------------------------------------------------------
(* Market data: utils.py and the snapshot routines of PathOptimizer *)

\* the price oracle answered with the coins of o.known, each quoted at o.quote
get_crypto_prices(coin_set, o) ==
    [c \in coin_set \cap o.known |-> [price |-> o.quote]]

\* one row of the withdrawal-fee table of an exchange
get_withdrawal_fees(row) ==
    [usd_fee  |-> row.usd_fee,
     usd_rate |-> (row.usd_fee * One) \div interex_trading_size,
     coin_fee |-> row.coin_fee]

init_currency_info(exs, o) ==
    LET listed   == UNION {{<<e, c>> : c \in exs[e].currencies} : e \in DOMAIN exs}
        no_fiat  == IF include_fiat THEN listed
                    ELSE {n \in listed : n[2] \notin fiat_set}
        coin_set == {n[2] : n \in no_fiat}
        prices   == get_crypto_prices(coin_set, o)
    IN  [crypto_prices |-> prices,
         currency_set  |-> {n \in no_fiat : n[2] \in DOMAIN prices}]

get_inter_convert_list(cs) ==
    IF inter_exchange_trading
    THEN {<<a, b>> \in cs \X cs : a[2] = b[2] /\ Rank(a) < Rank(b)}
    ELSE {}

update_withdrawal_fee(cs, tables) ==
    LET kept == {n \in cs : n[2] \in DOMAIN tables[n[1]]}
    IN  [n \in kept |-> get_withdrawal_fees(tables[n[1]][n[2]])]

Idx(c2i) == 0 .. (Cardinality(DOMAIN c2i) - 1)

get_var_location(exs, c2i, icl) ==
    LET i2c == [i \in Idx(c2i) |-> CHOOSE n \in DOMAIN c2i : c2i[n] = i]
        intra(a, b) == /\ a[1] = b[1]
                       /\ \/ <<a[2], b[2]>> \in exs[a[1]].markets
                          \/ <<b[2], a[2]>> \in exs[a[1]].markets
        inter(a, b) == <<a, b>> \in icl \/ <<b, a>> \in icl
    IN  [e \in Idx(c2i) \X Idx(c2i) |->
            intra(i2c[e[1]], i2c[e[2]]) \/ inter(i2c[e[1]], i2c[e[2]])]

\* the tickers of one exchange, keyed by the pair of nodes
parallel_fetch_tickers(exs, exc_name, fetched) ==
    LET pairs == DOMAIN fetched \cap exs[exc_name].markets
    IN  [k \in {<<<<exc_name, p[1]>>, <<exc_name, p[2]>>>> : p \in pairs} |->
            fetched[<<k[1][2], k[2][2]>>]]

\* self.price: the tickers of every exchange
fetch_price(exs, tickers) ==
    LET per(e) == parallel_fetch_tickers(exs, e, tickers[e])
        keys   == UNION {DOMAIN per(e) : e \in DOMAIN exs}
    IN  [k \in keys |-> per(k[1][1])[k]]

update_transit_price(prc, cs, c2i, icl, wf) ==
    LET i2c == [i \in Idx(c2i) |-> CHOOSE n \in DOMAIN c2i : c2i[n] = i]
        usable(k) == /\ k \in DOMAIN prc
                     /\ k[1] \in cs /\ k[2] \in cs
                     /\ prc[k].ask # 0 /\ prc[k].bid # 0
        cell(a, b) ==
            IF <<a, b>> \in icl \/ <<b, a>> \in icl
            THEN IF a \in DOMAIN wf THEN One ELSE 0
            ELSE IF usable(<<a, b>>) THEN prc[<<a, b>>].bid
            ELSE IF usable(<<b, a>>) THEN (One * One) \div prc[<<b, a>>].ask
            ELSE 0
    IN  [e \in Idx(c2i) \X Idx(c2i) |-> cell(i2c[e[1]], i2c[e[2]])]

update_balance(exs, cs, prices, fetched) ==
    LET coin_set == {n[2] : n \in cs}
        keys == {<<e, c>> : e \in DOMAIN exs, c \in coin_set} \cap
                UNION {{<<e, c>> : c \in DOMAIN fetched[e]} : e \in DOMAIN exs}
    IN  [n \in keys |->
            [balance     |-> fetched[n[1]][n[2]],
             usd_balance |-> fetched[n[1]][n[2]] * prices[n[2]].price]]

update_commission_fee(c2i, icl, wf) ==
    LET i2c == [i \in Idx(c2i) |-> CHOOSE n \in DOMAIN c2i : c2i[n] = i]
        cell(a, b) ==
            IF (<<a, b>> \in icl \/ <<b, a>> \in icl) /\ a \in DOMAIN wf
            THEN wf[a].usd_rate
            ELSE IF a[1] = b[1] THEN trading_fee[a[1]]
            ELSE 0
    IN  [e \in Idx(c2i) \X Idx(c2i) |-> cell(i2c[e[1]], i2c[e[2]])]

update_vol_matrix(prc, cs, c2i, icl, wf, prices, bal) ==
    LET i2c == [i \in Idx(c2i) |-> CHOOSE n \in DOMAIN c2i : c2i[n] = i]
        valued == {k \in DOMAIN prc :
                      /\ k[1][2] \in DOMAIN prices
                      /\ prc[k].baseVolume # NoNumber
                      /\ prices[k[1][2]].price # NoNumber}
        usd_values == [k \in valued |->
                         (prc[k].baseVolume * prices[k[1][2]].price) \div PercentileDiv]
        usd_bal(n) == IF n \in DOMAIN bal THEN bal[n].usd_balance ELSE 0
        cell(a, b) ==
            IF <<a, b>> \in icl \/ <<b, a>> \in icl
            THEN IF a \in DOMAIN wf
                 THEN (IF consider_inter_exc_bal THEN usd_bal(b) ELSE 1000000)
                      + wf[a].usd_fee
                 ELSE 0
            ELSE IF <<a, b>> \in valued /\ a \in cs /\ b \in cs THEN usd_values[<<a, b>>]
            ELSE IF <<b, a>> \in valued /\ a \in cs /\ b \in cs THEN usd_values[<<b, a>>]
            ELSE 0
    IN  [e \in Idx(c2i) \X Idx(c2i) |-> cell(i2c[e[1]], i2c[e[2]])]

-----------------------------------------------------------------------------
(* The path model: variables, constraints, objective, solver *)

\* self.var: one binary variable for every cell of var_location
VarCells(vl) == {e \in DOMAIN vl : vl[e]}

\* an assignment of the variables is the set of cells whose variable is 1
RowSum(s, c) == Cardinality({e \in s : e[1] = c})
ColSum(s, c) == Cardinality({e \in s : e[2] = c})

\* constraint 1 written for the outgoing side only
closed_circle_out_only(s, n) == \A c \in 0 .. (n - 1) : RowSum(s, c) = RowSum(s, c)

\* constraints 1 to 4 of set_constraints
closed_circle(s, n)  == \A c \in 0 .. (n - 1) : RowSum(s, c) = ColSum(s, c)
once_out(s, n)       == \A c \in 0 .. (n - 1) : RowSum(s, c) <= 1
once_in(s, n)        == \A c \in 0 .. (n - 1) : ColSum(s, c) <= 1
within_length(s, pl) == Cardinality(s) <= pl

set_constraints(s, n, pl) ==
    /\ closed_circle(s, n)
    /\ once_out(s, n)
    /\ once_in(s, n)
    /\ within_length(s, pl)

\* the constraint named 'changeable': left >= 0.0000001 * sum(x)
changeable_constraint(s, ch) ==
    ch.present =>
        10000000 * Cardinality({e \in s : e[1] \in ch.index}) >= Cardinality(s)

\* the assignments that satisfy every constraint of the model
Feasible(vl, n, pl, ch) ==
    {s \in SUBSET VarCells(vl) :
        set_constraints(s, n, pl) /\ changeable_constraint(s, ch)}

\* the objective weights without the volume factor
final_transit_matrix_no_volume(tp, cm, vol) ==
    [e \in DOMAIN tp |-> Log((tp[e] * (One - cm[e])) \div One)]

\* np.log(transit_price * (1 - commission) * (vol >= min_trading_limit))
final_transit_matrix(tp, cm, vol) ==
    [e \in DOMAIN tp |->
        Log(((tp[e] * (One - cm[e])) \div One)
            * (IF vol[e] >= min_trading_limit THEN 1 ELSE 0))]

\* the objective sum(x * final_transit) at an assignment
Objective(s, w) ==
    IF \E e \in s : w[e] = NegInf THEN NegInf ELSE SumOver(s, w)

\* self.solve(): the assignments of maximal objective the solver may return;
\* none for an infeasible model, where solve() returns None
Solve(feasible, w) ==
    IF feasible = {} THEN {}
    ELSE LET values == {Objective(s, w) : s \in feasible}
             best   == CHOOSE b \in values : \A o \in values : o <= b
         IN  {s \in feasible : Objective(s, w) = best}

\* list(zip(*np.nonzero(xs))): the selected cells, row by row
RECURSIVE RowMajor(_)
RowMajor(s) ==
    IF s = {} THEN <<>>
    ELSE LET m == CHOOSE m \in s :
                      \A o \in s : m[1] < o[1] \/ (m[1] = o[1] /\ m[2] <= o[2])
         IN  <<m>> \o RowMajor(s \ {m})

\* first_num of _sort_list: a later tuple replaces an earlier one of the same head
first_num(tuple_list) ==
    [c \in {tuple_list[k][1] : k \in DOMAIN tuple_list} |->
        tuple_list[CHOOSE k \in DOMAIN tuple_list :
                      /\ tuple_list[k][1] = c
                      /\ \A l \in DOMAIN tuple_list : tuple_list[l][1] = c => l <= k]]

\* the while loop of _sort_list; "KeyError" when a tail is no tuple's head
RECURSIVE walk(_, _, _)
walk(fn, output, item) ==
    IF item[2] \notin DOMAIN fn THEN <<"KeyError">>
    ELSE LET next_item == fn[item[2]]
         IN  IF next_item \in Range(output) THEN output
             ELSE walk(fn, Append(output, next_item), next_item)

sort_list(tuple_list, required) ==
    IF Len(tuple_list) > 0
    THEN LET fn    == first_num(tuple_list)
             found == {k \in DOMAIN required : required[k] \in DOMAIN fn}
             item  == IF found # {}
                      THEN fn[required[CHOOSE k \in found : \A l \in found : k <= l]]
                      ELSE tuple_list[1]
         IN  walk(fn, <<item>>, item)
    ELSE <<>>

\* sorted(coin_balance_list, key=usd_balance, reverse=True): stable
RECURSIVE SortedDesc(_, _)
SortedDesc(nodes, bal) ==
    IF nodes = {} THEN <<>>
    ELSE LET m == CHOOSE m \in nodes : \A o \in nodes :
                      \/ bal[m].usd_balance > bal[o].usd_balance
                      \/ (bal[m].usd_balance = bal[o].usd_balance /\ Rank(m) <= Rank(o))
         IN  <<m>> \o SortedDesc(nodes \ {m}, bal)

\* the funded nodes, richest first
funded_list(bal) ==
    SortedDesc({n \in DOMAIN bal : bal[n].usd_balance >= min_trading_limit}, bal)

\* update_changeable_constraint without the test of consider_init_bal
update_changeable_constraint_always(cib, bal, c2i, required, ch) ==
    LET new  == funded_list(bal)
        same == new = required
    IN  [required_currencies |-> new,
         changeable |->
             IF new = <<>> THEN ch
             ELSE IF same THEN ch
             ELSE [present |-> TRUE, index |-> {c2i[new[k]] : k \in DOMAIN new}]]

\* returns the new required_currencies and the new 'changeable' constraint
update_changeable_constraint(cib, bal, c2i, required, ch) ==
    IF cib
    THEN LET new  == funded_list(bal)
             same == new = required
         IN  [required_currencies |-> new,
              changeable |->
                  IF new = <<>> THEN ch
                  ELSE IF same THEN ch
                  ELSE [present |-> TRUE, index |-> {c2i[new[k]] : k \in DOMAIN new}]]
    ELSE [required_currencies |-> required, changeable |-> ch]

-----------------------------------------------------------------------------
(* What the exchanges, the fee site and the price oracle answer *)

LeadMarkets == {<<"A", "B">>, <<"D", "E">>}

\* fetch_tickers of one exchange
\*   flat: every pair at bid = ask = 1      arb:  the lead pair at bid = ask = 64
\*   thin: arb, with a low base volume      dead: arb, the lead pair without ask
Ticker(exs, e, kind) ==
    [m \in exs[e].markets |->
        [bid |-> IF kind # "flat" /\ m \in LeadMarkets THEN 64 * One ELSE One,
         ask |-> IF kind = "dead" /\ m \in LeadMarkets THEN 0
                 ELSE IF kind # "flat" /\ m \in LeadMarkets THEN 64 * One ELSE One,
         baseVolume |-> IF kind = "thin" THEN 500 ELSE 2000]]

\* fetch_free_balance of every exchange
Balance(exs, kind) ==
    LET second == IF "B" \in exs.Y.currencies THEN "B" ELSE "E"
    IN  CASE kind = "none" -> [X |-> <<>>, Y |-> <<>>]
          [] kind = "x"    -> [X |-> [c \in {"A"} |-> 20], Y |-> <<>>]
          [] kind = "xy"   -> [X |-> [c \in {"A", "B"} |-> 20],
                               Y |-> [c \in {second} |-> 40]]

\* what one call of find_arbitrage reads from the exchanges
Snapshots(exs) ==
    {[tickers |-> [e \in DOMAIN exs |-> Ticker(exs, e, k[e])],
      balance |-> Balance(exs, k.bal),
      errors  |-> {}] :
        k \in {[X |-> "arb",  Y |-> "flat", bal |-> "xy"],
               [X |-> "arb",  Y |-> "arb",  bal |-> "x"],
               [X |-> "arb",  Y |-> "arb",  bal |-> "none"],
               [X |-> "thin", Y |-> "flat", bal |-> "none"],
               [X |-> "dead", Y |-> "arb",  bal |-> "x"]}}

\* eachThread: a fetch that raises leaves (num, None) in the output list; one
\* fetch_tickers or one fetch_free_balance of one exchange raises
FailingSnapshots(exs) ==
    {[s EXCEPT !.errors = {<<kind, e>>}] :
        s \in Snapshots(exs), kind \in {"tickers", "balance"}, e \in DOMAIN exs}

\* the exchanges that dict iteration meets before the first one of failed
Preceding(exs, failed) ==
    LET pos(e) == CHOOSE k \in DOMAIN ExchangeNames : ExchangeNames[k] = e
    IN  [e \in {d \in DOMAIN exs : \A f \in failed : pos(d) < pos(f)} |-> exs[e]]

\* the withdrawal-fee tables: a fee of 4 USD (1 coin) on every coin, and the
\* same with no row for B on X
FeeTables(exs) ==
    LET row == [usd_fee |-> 4, coin_fee |-> 1]
    IN  {[e \in DOMAIN exs |->
             [c \in (IF e = "X" THEN exs[e].currencies \ drop ELSE exs[e].currencies)
                 |-> row]] : drop \in {{}, {"B"}}}

\* the oracle quotes every coin at 1 USD
Oracles(exs) ==
    {[known |-> UNION {exs[e].currencies : e \in DOMAIN exs}, quote |-> 1]}

-----------------------------------------------------------------------------
(* PathOptimizer *)

\* the attributes of a PathOptimizer that has not run, and no AmtOptimizer yet
Unstarted ==
    /\ run_times = 0
    /\ currency_set = None
    /\ currency2index = None
    /\ index2currency = None
    /\ inter_convert_list = None
    /\ var_location = None
    /\ withdrawal_fee = None
    /\ crypto_prices = None
    /\ commission_matrix = None
    /\ balance_dict = None
    /\ price = None
    /\ transit_price_matrix = None
    /\ vol_matrix = None
    /\ changeable = [present |-> FALSE, index |-> {}]
    /\ xs = None
    /\ path = None
    /\ objective_value = None
    /\ obj = None
    /\ raised = "none"
    /\ trace = <<>>
    /\ fetch_errors = {}
    /\ pair_info = None
    /\ precision = None
    /\ orderbook_n = NoNumber
    /\ amt_path = None
    /\ fetched_order_book_list = None
    /\ path_commission = None
    /\ order_book = None
    /\ reverse_list = None
    /\ precision_matrix = None
    /\ amt_matrix = None
    /\ price_matrix = None
    /\ balance_vol = None
    /\ feasible_set = None
    /\ solution = None
    /\ amt_objective_value = None
    /\ trade_solution = None
    /\ amt_raised = None
    /\ solve_times = 0
    /\ exec_solution = <<>>
    /\ tasks = [intra |-> <<>>, inter_ex |-> <<>>]
    /\ event = FALSE
    /\ threads = <<>>
    /\ outputList = <<>>
    /\ orders = <<>>
    /\ withdrawals = <<>>
    /\ stage = "idle"
    /\ List = <<>>
    /\ threadNum = 1
    /\ line = <<>>
    /\ appended = <<>>
    /\ returned = <<>>
    /\ mt_stage = "idle"
    /\ coin_sets = <<>>
    /\ response = [status_code |-> 0, json |-> TRUE, named |-> {}, data |-> {}]
    /\ gcp_output = {}
    /\ gcp_raised = "none"
    /\ gcp_stage = "idle"

Init ==
    /\ exchanges \in {PairExchanges, TriExchanges}
    /\ path_length \in {2, 4, 6}
    /\ refresh_time \in {1, 2}
    /\ consider_init_bal \in BOOLEAN
    /\ required_currencies \in {<<>>, << <<"X", "A">> >>}
    \* the larger graph is run with the path length that admits two triangles
    /\ exchanges = TriExchanges => path_length = 6 /\ refresh_time = 2 /\ consider_init_bal
    /\ exchanges = PairExchanges => path_length # 6
    /\ params = << <<"path_length", path_length>>, <<"refresh_time", refresh_time>>,
                   <<"consider_init_bal", consider_init_bal>> >>
    /\ Unstarted

\* an inversion that pairs each index with the node of the next index
swap_items_shifted(d) ==
    [i \in Range(d) |-> CHOOSE n \in DOMAIN d : d[n] = (i + 1) % Cardinality(DOMAIN d)]

\* {val: key for key, val in d.items()}
swap_items(d) == [i \in Range(d) |-> CHOOSE n \in DOMAIN d : d[n] = i]

\* _run_time_init: the node indexing and the variable locations
run_time_init(exs, o, order) ==
    LET info == init_currency_info(exs, o)
        c2i  == [n \in info.currency_set |->
                    (CHOOSE k \in DOMAIN order : order[k] = n) - 1]
        icl  == get_inter_convert_list(info.currency_set)
    IN  [currency_set       |-> info.currency_set,
         crypto_prices      |-> info.crypto_prices,
         currency2index     |-> c2i,
         index2currency     |-> swap_items(c2i),
         inter_convert_list |-> icl,
         var_location       |-> get_var_location(exs, c2i, icl)]

\* a refresh test that also fires in the second call
refresh_due_second_call(times, period) == times % period = 0 \/ times = 1

\* find_arbitrage: "if self.run_times % self.refresh_time == 0"
refresh_due(times, period) == times % period = 0

\* the routines one call runs before the solver, in order
call_trace(first, refresh) ==
    (IF first THEN <<"_run_time_init">> ELSE <<>>)
    \o (IF refresh
        THEN <<"update_withdrawal_fee", "update_ref_coin_price", "update_commission_fee">>
        ELSE <<>>)
    \o <<"update_balance", "update_transit_price", "update_vol_matrix",
         "update_changeable_constraint", "solve">>

\* the routines of a call up to the one that raised
UpTo(routines, last) ==
    SubSeq(routines, 1, CHOOSE k \in DOMAIN routines : routines[k] = last)

find_arbitrage(snap, tables, o, order) ==
    LET first   == run_times = 0
        refresh == refresh_due(run_times, refresh_time)
        init    == IF first THEN run_time_init(exchanges, o, order)
                   ELSE [currency_set       |-> currency_set,
                         crypto_prices      |-> crypto_prices,
                         currency2index     |-> currency2index,
                         index2currency     |-> index2currency,
                         inter_convert_list |-> inter_convert_list,
                         var_location       |-> var_location]
        cs      == init.currency_set
        c2i     == init.currency2index
        icl     == init.inter_convert_list
        n       == Cardinality(cs)
        wf      == IF first \/ refresh THEN update_withdrawal_fee(cs, tables)
                   ELSE withdrawal_fee
        prices  == IF refresh THEN get_crypto_prices(DOMAIN init.crypto_prices, o)
                   ELSE init.crypto_prices
        cm      == IF refresh THEN update_commission_fee(c2i, icl, wf)
                   ELSE commission_matrix
        \* update_objectives
        bal     == update_balance(exchanges, cs, prices, snap.balance)
        prc     == fetch_price(exchanges, snap.tickers)
        tp      == update_transit_price(prc, cs, c2i, icl, wf)
        vol     == update_vol_matrix(prc, cs, c2i, icl, wf, prices, bal)
        upd     == update_changeable_constraint(consider_init_bal, bal, c2i,
                                                required_currencies, changeable)
        w       == final_transit_matrix(tp, cm, vol)
        feas    == Feasible(init.var_location, n, path_length, upd.changeable)
        no_bal  == {e \in DOMAIN exchanges : <<"balance", e>> \in snap.errors}
        no_tick == {e \in DOMAIN exchanges : <<"tickers", e>> \in snap.errors}
        \* the exchanges with a balance of a coin of the graph that has no price
        no_price == {e \in DOMAIN exchanges :
                        \E c \in DOMAIN snap.balance[e] :
                            c \in {m[2] : m \in cs} /\ c \notin DOMAIN prices}
    IN  /\ currency_set' = cs
        /\ currency2index' = c2i
        /\ index2currency' = init.index2currency
        /\ inter_convert_list' = icl
        /\ var_location' = init.var_location
        /\ withdrawal_fee' = wf
        /\ crypto_prices' = prices
        /\ commission_matrix' = cm
        /\ fetch_errors' = snap.errors
        /\ IF no_bal # {}
           THEN \* update_balance: exc_bal is None, exc_bal.keys() raises
                /\ balance_dict' = update_balance(Preceding(exchanges, no_bal), cs,
                                                  prices, snap.balance)
                /\ trace' = UpTo(call_trace(first, refresh), "update_balance")
                /\ raised' = "AttributeError"
                /\ UNCHANGED <<price, transit_price_matrix, vol_matrix,
                               required_currencies, changeable, xs, path,
                               objective_value, obj, run_times>>
           ELSE IF no_price # {}
           THEN \* update_balance: self.crypto_prices[i] raises
                /\ balance_dict' = update_balance(Preceding(exchanges, no_price), cs,
                                                  prices, snap.balance)
                /\ trace' = UpTo(call_trace(first, refresh), "update_balance")
                /\ raised' = "KeyError"
                /\ UNCHANGED <<price, transit_price_matrix, vol_matrix,
                               required_currencies, changeable, xs, path,
                               objective_value, obj, run_times>>
           ELSE IF no_tick # {}
           THEN \* update_transit_price: self.price.update(None) raises
                /\ balance_dict' = bal
                /\ price' = fetch_price(Preceding(exchanges, no_tick), snap.tickers)
                /\ transit_price_matrix' = [e \in Idx(c2i) \X Idx(c2i) |-> 0]
                /\ trace' = UpTo(call_trace(first, refresh), "update_transit_price")
                /\ raised' = "TypeError"
                /\ UNCHANGED <<vol_matrix, required_currencies, changeable, xs, path,
                               objective_value, obj, run_times>>
           ELSE /\ balance_dict' = bal
                /\ price' = prc
                /\ transit_price_matrix' = tp
                /\ vol_matrix' = vol
                /\ required_currencies' = upd.required_currencies
                /\ changeable' = upd.changeable
                /\ trace' = call_trace(first, refresh)
                /\ IF feas = {}
                   THEN \* ms is None: ms.get_values raises, after self.xs was reset
                        /\ xs' = [e \in DOMAIN init.var_location |-> 0]
                        /\ raised' = "AttributeError"
                        /\ UNCHANGED <<path, objective_value, obj, run_times>>
                   ELSE \E ms \in Solve(feas, w) :
                        LET cells      == RowMajor(ms)
                            tuple_list == [k \in DOMAIN cells |->
                                              <<init.index2currency[cells[k][1]],
                                                init.index2currency[cells[k][2]]>>]
                            sorted     == sort_list(tuple_list, upd.required_currencies)
                        IN  /\ xs' = [e \in DOMAIN init.var_location |->
                                          IF e \in ms THEN 1 ELSE 0]
                            /\ objective_value' = Objective(ms, w)
                            /\ IF sorted = <<"KeyError">>
                               THEN /\ raised' = "KeyError"
                                    /\ UNCHANGED <<path, obj, run_times>>
                               ELSE /\ path' = sorted
                                    /\ obj' = ExpM1(Objective(ms, w))
                                    /\ run_times' = run_times + 1
                                    /\ raised' = "none"
        /\ UNCHANGED <<params, exchanges, path_length, refresh_time, consider_init_bal>>
        /\ UNCHANGED <<avars, evars, uvars>>

FindArbitrage ==
    /\ run_times < MaxRuns
    /\ \E snap \in Snapshots(exchanges) :
       \E tables \in (IF run_times = 0 \/ refresh_due(run_times, refresh_time)
                      THEN FeeTables(exchanges) ELSE {None}) :
       \E o \in (IF run_times = 0 \/ refresh_due(run_times, refresh_time)
                 THEN Oracles(exchanges) ELSE {None}) :
       \E order \in (IF run_times = 0
                     THEN Enumerations(init_currency_info(exchanges, o).currency_set)
                     ELSE {None}) :
          find_arbitrage(snap, tables, o, order)

Next == FindArbitrage

Spec == Init /\ [][Next]_vars

-----------------------------------------------------------------------------
(* AmtOptimizer: construction and the parameters of one get_solution *)

\* an integer variable x[i, j] of the amount model ranges over 0 .. MaxX
MaxX == 8

\* get_solution is called at most MaxSolutions times
MaxSolutions == 1

\* orderbook_n handed to the constructor
OrderBookN == 2

\* 1e+10 in the code; any number above every amount of the model acts alike
big_m == 1000000

trade_amt_ptc == 1

\* the amplifier is 1e-10 in the code, here 1 / AmplifierInv
AmplifierInv == 8

\* default_precision while __init__ runs get_precision: the class attribute,
\* None; the instance attribute 3 is assigned after get_precision has returned
default_precision == NoNumber

\* the precision of a transfer between exchanges
transfer_precision == 5

RECURSIVE Pow10(_)
Pow10(n) == IF n <= 0 THEN 1 ELSE 10 * Pow10(n - 1)

get_pair_info(exs) == [e \in DOMAIN exs |-> exs[e].markets]

\* keyed by the pair of nodes 'exc_base/exc_quote'
get_precision(exs, cs) ==
    LET intra == UNION {{<<<<e, m[1]>>, <<e, m[2]>>>> : m \in exs[e].markets} :
                           e \in DOMAIN exs}
        inter == IF inter_exchange_trading
                 THEN {k \in cs \X cs : k[1][2] = k[2][2] /\ k[1] # k[2]}
                 ELSE {}
        amount(k) == exs[k[1][1]].precision[<<k[1][2], k[2][2]>>]
    IN  [k \in intra \cup inter |->
            IF k \in inter THEN transfer_precision
            ELSE IF amount(k) = NoNumber THEN default_precision
            ELSE amount(k)]

\* AmtOptimizer(PathOptimizer, orderbook_n)
Construct ==
    /\ trace # <<>>
    /\ orderbook_n = NoNumber
    /\ pair_info' = get_pair_info(exchanges)
    /\ precision' = get_precision(exchanges, currency_set)
    /\ orderbook_n' = OrderBookN
    /\ UNCHANGED <<amt_path, path_commission, fetched_order_book_list, order_book, reverse_list,
                   precision_matrix, amt_matrix, price_matrix, balance_vol,
                   feasible_set, solution, amt_objective_value, trade_solution,
                   amt_raised, solve_times>>
    /\ UNCHANGED <<pvars, evars, uvars>>

\* fetch_order_book: price levels <<price, amount>>, best first
\*   high: the pair trades around 9   low:  the pair trades around 1
\*   one:  a single level at 1        long: three levels around 1
OrderBook(kind) ==
    CASE kind = "high" -> [bids |-> <<<<9, 1>>, <<8, 7>>>>,
                           asks |-> <<<<9, 1>>, <<10, 7>>>>]
      [] kind = "low"  -> [bids |-> <<<<1, 8>>, <<1, 8>>>>,
                           asks |-> <<<<1, 8>>, <<2, 8>>>>]
      [] kind = "one"  -> [bids |-> <<<<1, 8>>>>,
                           asks |-> <<<<1, 8>>>>]
      [] kind = "long" -> [bids |-> <<<<1, 2>>, <<1, 2>>, <<1, 4>>>>,
                           asks |-> <<<<1, 2>>, <<1, 2>>, <<2, 4>>>>]

\* the order books one get_solution fetches, one per leg of the path: the book
\* the first leg's request returned and the book every later request returned
FetchedBooks ==
    {[first |-> OrderBook(k[1]), later |-> OrderBook(k[2])] :
        k \in {<<"high", "low">>, <<"low", "high">>, <<"one", "long">>}}

set_path_commission(p, cm, c2i) ==
    [i \in DOMAIN p |-> cm[<<c2i[p[i][1]], c2i[p[i][2]]>>]]

\* np.cumsum of the amounts of one side of a book
RECURSIVE cumsum(_, _)
cumsum(side, k) == IF k = 0 THEN 0 ELSE side[k][2] + cumsum(side, k - 1)

\* orders[:n, :]
Take(s, n) == [k \in 1 .. (IF Len(s) < n THEN Len(s) ELSE n) |-> s[k]]

\* keyed by the legs of the path; fetched[i] is what leg i's request returned
path_order_book(p, pinfo, fetched, n) ==
    LET index(e) == CHOOSE i \in DOMAIN p : p[i] = e
        reverse(e) == e[1][1] = e[2][1] /\ <<e[1][2], e[2][2]>> \notin pinfo[e[1][1]]
        side(e) == IF reverse(e) THEN fetched[index(e)].asks ELSE fetched[index(e)].bids
        cumulated(e) == [k \in DOMAIN side(e) |-> <<side(e)[k][1], cumsum(side(e), k)>>]
    IN  [e \in Range(p) |->
            [reverse |-> reverse(e),
             orders  |-> IF e[1][1] = e[2][1] THEN Take(cumulated(e), n)
                         ELSE [k \in 1 .. n |-> <<1, IF k = 1 THEN big_m ELSE 0>>]]]

get_reverse_list(p, ob) == [i \in DOMAIN p |-> ob[p[i]].reverse]

\* the key of a leg in self.precision
trade_pair(e, reverse) == IF reverse THEN <<e[2], e[1]>> ELSE e

\* 10 ** -precision, in units of 10 ** -transfer_precision
set_precision_matrix(p, rl, prec) ==
    [i \in DOMAIN p |-> Pow10(transfer_precision - prec[trade_pair(p[i], rl[i])])]

\* set_amt_and_price_matrix: column c of the orders of each leg, padded with zeros
padded_column(p, ob, n, c) ==
    [i \in DOMAIN p |->
        [k \in 1 .. n |-> IF k <= Len(ob[p[i]].orders) THEN ob[p[i]].orders[k][c] ELSE 0]]

balance_constraint(bal, p) ==
    LET held(node) == IF node \in DOMAIN bal THEN bal[node].balance ELSE 0
        inter == IF inter_exchange_trading
                 THEN {e \in Range(p) : e[1][1] # e[2][1]} ELSE {}
    IN  [e \in {p[1]} \cup inter |->
            [node \in (IF e = p[1] THEN {e[1]} ELSE {}) \cup
                      (IF e \in inter THEN {e[2]} ELSE {}) |-> held(node)]]

-----------------------------------------------------------------------------
(* The amount model: variables, constraints, objective, solver *)

\* the keys balance_constraint looks up in the PathOptimizer's balance_dict
balance_lookups(p) ==
    {p[1][1]} \cup {p[i][2] : i \in {k \in DOMAIN p : p[k][1][1] # p[k][2][1]}}

\* a dictionary after keys were taken out of it with pop
after_pop(d, keys) == [k \in DOMAIN d \ keys |-> d[k]]

\* a dictionary after keys were looked up in it with get: as it was
after_get(d, keys) == d

\* mp gathers the parameters of the model: path, path_n, orderbook_n,
\* reverse_list, precision_matrix, amt_matrix, price_matrix, path_commission,
\* balance_vol and withdrawal_fee.  An assignment gives every leg i a row
\* [x, y] of the values of x[i, :] and y[i, :].
Legs(mp)   == 1 .. mp.path_n
Layers(mp) == 1 .. mp.orderbook_n

\* z = x * precision_matrix
z(mp, i, r) == [j \in Layers(mp) |-> r.x[j] * mp.precision_matrix[i]]

sum_z(mp, i, r) == SumOver(Layers(mp), z(mp, i, r))

\* self.dot(z[i, :], price_matrix[i, :])
dot_z(mp, i, r) ==
    SumOver(Layers(mp), [j \in Layers(mp) |-> z(mp, i, r)[j] * mp.price_matrix[i][j]])

inter(mp, i) == mp.path[i][1][1] # mp.path[i][2][1]

withdraw_fee(mp, i) == mp.withdrawal_fee[mp.path[i][1]].coin_fee

\* 1. sum(y) == path_n
total_levels(mp, s) ==
    SumOver(Legs(mp), [i \in Legs(mp) |-> SumOver(Layers(mp), s[i].y)]) = mp.path_n

\* 2. when the constraint is added for every step but the last
one_level_per_step_but_last(mp, i, r) ==
    i < mp.path_n => SumOver(Layers(mp), r.y) <= 1

\* 2. sum(y[i, :]) <= 1 for i in range(path_n)
one_level_per_step(mp, i, r) == SumOver(Layers(mp), r.y) <= 1

\* 2. x[i, j] <= big_m * y[i, j]
only_chosen_level(mp, r) == \A j \in Layers(mp) : r.x[j] <= big_m * r.y[j]

\* 3. with every level bounded by the deepest level of the book
within_order_book_deepest(mp, i, r) ==
    \A j \in Layers(mp) :
        z(mp, i, r)[j] <= trade_amt_ptc * mp.amt_matrix[i][mp.orderbook_n]

\* 3. z[i, j] <= trade_amt_ptc * amt_matrix[i, j]
within_order_book(mp, i, r) ==
    \A j \in Layers(mp) : z(mp, i, r)[j] <= trade_amt_ptc * mp.amt_matrix[i][j]

\* 4. the first step within the balance of the first coin
first_within_balance(mp, r) ==
    LET first_coin_bal == mp.balance_vol[mp.path[1]][mp.path[1][1]]
    IN  IF ~mp.reverse_list[1] THEN sum_z(mp, 1, r) <= first_coin_bal
        ELSE dot_z(mp, 1, r) <= first_coin_bal

\* 5. a transfer within the balance of the recipient plus the fee
transfer_within_balance(mp, i, r) ==
    (mp.path[i] \in DOMAIN mp.balance_vol
        /\ mp.path[i][2] \in DOMAIN mp.balance_vol[mp.path[i]])
    => sum_z(mp, i, r) <= mp.balance_vol[mp.path[i]][mp.path[i][2]] + withdraw_fee(mp, i)

\* 6. prev_amt without the commission of a trade
prev_amt_gross(mp, i, r) ==
    IF inter(mp, i) THEN (sum_z(mp, i, r) - withdraw_fee(mp, i)) * One
    ELSE IF ~mp.reverse_list[i] THEN dot_z(mp, i, r) * One
    ELSE sum_z(mp, i, r) * One

\* 6. prev_amt after step i, as a fixed-point number of unit One
prev_amt(mp, i, r) ==
    IF inter(mp, i) THEN (sum_z(mp, i, r) - withdraw_fee(mp, i)) * One
    ELSE IF ~mp.reverse_list[i] THEN dot_z(mp, i, r) * (One - mp.path_commission[i])
    ELSE sum_z(mp, i, r) * (One - mp.path_commission[i])

\* 6. step i >= 2 is bound by prev_amt, the value after the step before it
bound_by_prior_step(mp, i, r, prev) ==
    IF ~mp.reverse_list[i] THEN sum_z(mp, i, r) * One <= prev
    ELSE dot_z(mp, i, r) * One <= prev

\* 7. x[i, j] >= 0
non_negative(mp, r) == \A j \in Layers(mp) : r.x[j] >= 0

\* the rows of leg i that satisfy the constraints on leg i alone
LegRows(mp, i) ==
    {r \in [x : [Layers(mp) -> 0 .. MaxX], y : [Layers(mp) -> {0, 1}]] :
        /\ one_level_per_step(mp, i, r)
        /\ only_chosen_level(mp, r)
        /\ within_order_book(mp, i, r)
        /\ i = 1 => first_within_balance(mp, r)
        /\ transfer_within_balance(mp, i, r)
        /\ non_negative(mp, r)}

\* the assignments of legs 1 .. i that satisfy constraints 2 to 7
RECURSIVE Chains(_, _)
Chains(mp, i) ==
    IF i = 1 THEN {<<r>> : r \in LegRows(mp, 1)}
    ELSE LET rows == LegRows(mp, i)
             next(s) == LET prev == prev_amt(mp, i - 1, s[i - 1])
                        IN  {q \in rows : bound_by_prior_step(mp, i, q, prev)}
         IN  UNION {{Append(s, r) : r \in next(s)} : s \in Chains(mp, i - 1)}

\* the assignments that satisfy every constraint of the model
AmtFeasible(mp) == {s \in Chains(mp, mp.path_n) : total_levels(mp, s)}

\* _update_objective: get and pay, get as a fixed-point number of unit One
get(mp, s) ==
    LET last == mp.path_n
    IN  IF inter(mp, last) THEN (sum_z(mp, last, s[last]) - withdraw_fee(mp, last)) * One
        ELSE IF ~mp.reverse_list[last]
             THEN dot_z(mp, last, s[last]) * (One - mp.path_commission[last])
        ELSE sum_z(mp, last, s[last]) * (One - mp.path_commission[last])

pay(mp, s) ==
    IF ~mp.reverse_list[1] THEN sum_z(mp, 1, s[1]) ELSE dot_z(mp, 1, s[1])

\* (get - pay) / amplifier, as a fixed-point number of unit One
AmtObjective(mp, s) == (get(mp, s) - pay(mp, s) * One) * AmplifierInv

\* self.solve(): the assignments of maximal objective
AmtSolve(mp, feasible) ==
    IF feasible = {} THEN {}
    ELSE LET values == {AmtObjective(mp, s) : s \in feasible}
             best   == CHOOSE b \in values : \A o \in values : o <= b
         IN  {s \in feasible : AmtObjective(mp, s) = best}

\* round(zs[i, j], precision) for an amount v and the step 10 ** -precision
round(v, step) == ((2 * v + step) \div (2 * step)) * step

\* self.trade_solution[trade] = ...: a new key is appended, a known key keeps
\* its place and takes the new value
put(out, entry) ==
    IF \E k \in DOMAIN out : out[k].trade = entry.trade
    THEN [k \in DOMAIN out |-> IF out[k].trade = entry.trade THEN entry ELSE out[k]]
    ELSE Append(out, entry)

\* the loop of _get_solution over the nonzero cells of zs, from cell k on
RECURSIVE emit(_, _, _, _, _)
emit(mp, s, cells, k, out) ==
    IF k > Len(cells) THEN out
    ELSE LET i == cells[k][1]
             j == cells[k][2]
             reverse == mp.reverse_list[i]
         IN  emit(mp, s, cells, k + 1,
                  put(out, [trade     |-> trade_pair(mp.path[i], reverse),
                            vol       |-> round(z(mp, i, s[i])[j], mp.precision_matrix[i]),
                            price     |-> mp.price_matrix[i][j],
                            direction |-> IF reverse THEN "ask_buy" ELSE "bid_sell"]))

nonzeroZ(mp, s) ==
    RowMajor({c \in Legs(mp) \X Layers(mp) : z(mp, c[1], s[c[1]])[c[2]] # 0})

-----------------------------------------------------------------------------
(* AmtOptimizer.get_solution *)

ModelParams(p, n, rl, pm, am, prm, pc, bv, wf) ==
    [path |-> p, path_n |-> Len(p), orderbook_n |-> n, reverse_list |-> rl,
     precision_matrix |-> pm, amt_matrix |-> am, price_matrix |-> prm,
     path_commission |-> pc, balance_vol |-> bv, withdrawal_fee |-> wf]

get_solution(books) ==
    LET p       == path
        fetched == [i \in DOMAIN p |-> IF i = 1 THEN books.first ELSE books.later]
        pc      == set_path_commission(p, commission_matrix, currency2index)
        ob      == path_order_book(p, pair_info, fetched, orderbook_n)
        rl      == get_reverse_list(p, ob)
        pm      == set_precision_matrix(p, rl, precision)
        am      == padded_column(p, ob, orderbook_n, 2)
        prm     == padded_column(p, ob, orderbook_n, 1)
        bv      == balance_constraint(balance_dict, p)
        \* the model is built from the attributes just assigned
        mp      == ModelParams(amt_path', orderbook_n, reverse_list', precision_matrix',
                               amt_matrix', price_matrix', path_commission',
                               balance_vol', withdrawal_fee)
    IN  /\ amt_path' = p
        /\ path_commission' = pc
        /\ fetched_order_book_list' = fetched
        /\ order_book' = ob
        /\ reverse_list' = rl
        /\ IF \E i \in DOMAIN p : precision[trade_pair(p[i], rl[i])] = NoNumber
           THEN \* set_precision_matrix: 10 ** -None
                /\ amt_raised' = "TypeError"
                /\ UNCHANGED <<precision_matrix, amt_matrix, price_matrix, balance_vol,
                               feasible_set, solution, amt_objective_value,
                               trade_solution, balance_dict>>
           ELSE /\ precision_matrix' = pm
                /\ amt_matrix' = am
                /\ price_matrix' = prm
                /\ IF p = <<>>
                   THEN \* balance_constraint: self.path[0]
                        /\ amt_raised' = "IndexError"
                        /\ UNCHANGED <<balance_vol, feasible_set, solution,
                                       amt_objective_value, trade_solution,
                                       balance_dict>>
                   ELSE /\ balance_vol' = bv
                        /\ balance_dict' = after_get(balance_dict, balance_lookups(p))
                        /\ IF \E e \in DOMAIN bv : e[1] \notin DOMAIN withdrawal_fee
                           THEN \* _set_constraints: withdrawal_fee[trade[0]]
                                /\ amt_raised' = "KeyError"
                                /\ UNCHANGED <<feasible_set, solution,
                                               amt_objective_value, trade_solution>>
                           ELSE /\ feasible_set' = AmtFeasible(mp)
                                /\ IF feasible_set' = {}
                                   THEN \* ms is None: ms.get_values raises,
                                        \* after trade_solution was reset
                                        /\ trade_solution' = <<>>
                                        /\ amt_raised' = "AttributeError"
                                        /\ UNCHANGED <<solution, amt_objective_value>>
                                   ELSE \E ms \in AmtSolve(mp, feasible_set') :
                                        /\ solution' = ms
                                        /\ amt_objective_value' = AmtObjective(mp, ms)
                                        /\ trade_solution' =
                                               emit(mp, ms, nonzeroZ(mp, ms), 1, <<>>)
                                        /\ amt_raised' = "none"

GetSolution ==
    /\ orderbook_n # NoNumber
    /\ run_times > 0
    /\ solve_times < MaxSolutions
    /\ solve_times' = solve_times + 1
    /\ \E books \in FetchedBooks : get_solution(books)
    /\ UNCHANGED <<pair_info, precision, orderbook_n>>
    /\ UNCHANGED <<params, exchanges, path_length, refresh_time, consider_init_bal,
                   run_times, currency_set, currency2index, index2currency,
                   inter_convert_list, var_location, withdrawal_fee, crypto_prices,
                   commission_matrix, price, transit_price_matrix, vol_matrix,
                   required_currencies, changeable, xs, path, objective_value, obj,
                   raised, trace, fetch_errors>>
    /\ UNCHANGED <<evars, uvars>>

have_workable_solution == Len(trade_solution) > 0 /\ amt_objective_value > 0

\* the first find_arbitrage of the optimizer
FirstArbitrage == run_times = 0 /\ FindArbitrage

NextAmt == FirstArbitrage \/ Construct \/ GetSolution

\* the optimizer is built with the path length that admits a cycle over both
\* exchanges, with consider_init_bal and without required currencies
InitAmt ==
    /\ Init
    /\ path_length \in {4, 6}
    /\ refresh_time = 2
    /\ consider_init_bal
    /\ required_currencies = <<>>

SpecAmt == InitAmt /\ [][NextAmt]_vars

-----------------------------------------------------------------------------
(* PathOptimizer: what the caller reads, and a constructor given any integer *)

\* have_opportunity(): len(self.path) > 0
have_opportunity == Len(path) > 0

\* set_params takes whatever path_length it is given; set_constraints adds
\* sum(x) <= path_length for every int
InitAnyLength ==
    /\ exchanges = PairExchanges
    /\ path_length \in {-1, 0, 2}
    /\ refresh_time \in {1, 2}
    /\ consider_init_bal \in BOOLEAN
    /\ required_currencies = <<>>
    /\ params = << <<"path_length", path_length>>, <<"refresh_time", refresh_time>>,
                   <<"consider_init_bal", consider_init_bal>> >>
    /\ Unstarted

SpecAnyLength == InitAnyLength /\ [][Next]_vars

\* a call in which one fetch of one exchange raises; the call before it, if
\* any, had every fetch answered
FindArbitrageFetchFails ==
    /\ run_times < MaxRuns
    /\ fetch_errors = {}
    /\ \E snap \in FailingSnapshots(exchanges) :
       \E tables \in (IF run_times = 0 \/ refresh_due(run_times, refresh_time)
                      THEN FeeTables(exchanges) ELSE {None}) :
       \E o \in (IF run_times = 0 \/ refresh_due(run_times, refresh_time)
                 THEN Oracles(exchanges) ELSE {None}) :
       \E order \in (IF run_times = 0
                     THEN Enumerations(init_currency_info(exchanges, o).currency_set)
                     ELSE {None}) :
          find_arbitrage(snap, tables, o, order)

NextFetch == FindArbitrage \/ FindArbitrageFetchFails

\* the oracle no longer quotes coin B
DroppingOracles(exs) ==
    {[known |-> UNION {exs[e].currencies : e \in DOMAIN exs} \ {"B"}, quote |-> 1]}

\* a call of find_arbitrage, after the first, whose refresh meets such an oracle
FindArbitrageOracleDrops ==
    /\ run_times < MaxRuns
    /\ run_times > 0
    /\ refresh_due(run_times, refresh_time)
    /\ "B" \in DOMAIN crypto_prices
    /\ \E snap \in Snapshots(exchanges) :
       \E tables \in FeeTables(exchanges) :
       \E o \in DroppingOracles(exchanges) :
          find_arbitrage(snap, tables, o, None)

NextOracle == FindArbitrage \/ FindArbitrageOracleDrops

InitOracle ==
    /\ Init
    /\ exchanges = PairExchanges
    /\ path_length = 4
    /\ refresh_time \in {1, 2}
    /\ consider_init_bal
    /\ required_currencies = <<>>

SpecOracle == InitOracle /\ [][NextOracle]_vars

InitFetch ==
    /\ Init
    /\ exchanges = PairExchanges
    /\ path_length = 4
    /\ refresh_time = 2
    /\ consider_init_bal
    /\ required_currencies = <<>>

SpecFetch == InitFetch /\ [][NextFetch]_vars

-----------------------------------------------------------------------------
(* PathOptimizer: the constructor *)

\* the longest keyword list given to the constructor
MaxParams == 2

\* the names hasattr(self, key) finds in set_params: the class attributes of
\* PathOptimizer and exchanges, assigned by __init__ before set_params runs
\* (the methods and what docplex's Model defines are found too)
Attributes ==
    {"length", "path_length", "currency_set", "transit_price_matrix", "trading_fee",
     "interex_trading_size", "withdrawal_fee", "include_fiat",
     "inter_exchange_trading", "fiat_set", "run_times", "refresh_time",
     "var_location", "commission_matrix", "vol_matrix", "currency2index",
     "index2currency", "required_currencies", "crypto_prices", "min_trading_limit",
     "balance_dict", "price", "inter_convert_list", "consider_inter_exc_bal",
     "consider_init_bal", "print_content", "simulated_bal", "obj", "var", "x", "xs",
     "path", "exchanges"}

\* the loop of set_params from the k-th keyword on
RECURSIVE setattr_each(_, _, _)
setattr_each(ps, k, attrs) ==
    IF k > Len(ps) THEN attrs
    ELSE IF ps[k][1] \in Attributes
         THEN setattr_each(ps, k + 1,
                           IF ps[k][1] \in DOMAIN attrs
                           THEN [attrs EXCEPT ![ps[k][1]] = ps[k][2]] ELSE attrs)
         ELSE [attrs EXCEPT !.raised = "ValueError"]

\* set_params: the defaults, then every keyword that names an attribute
set_params(ps) ==
    setattr_each(ps, 1, [path_length |-> 4, refresh_time |-> 1000, run_times |-> 0,
                         raised |-> "none"])

\* the keyword lists tried: two options of the documentation, a class
\* attribute that is no option, and a name the class does not have
ParamLists ==
    LET names  == {"path_length", "refresh_time", "run_times", "depth"}
        single == {<<n, v>> : n \in names, v \in 1 .. 3}
    IN  {ps \in UNION {[1 .. n -> single] : n \in 0 .. MaxParams} :
            \A j, k \in DOMAIN ps : j # k => ps[j][1] # ps[k][1]}

\* PathOptimizer(exchanges, **params)
PathOptimizerInit ==
    /\ path_length = NoNumber
    /\ LET a == set_params(params)
       IN  /\ path_length' = a.path_length
           /\ refresh_time' = a.refresh_time
           /\ run_times' = a.run_times
           /\ raised' = a.raised
    /\ consider_init_bal' = TRUE
    /\ required_currencies' = <<>>
    /\ UNCHANGED <<params, exchanges, currency_set, currency2index, index2currency,
                   inter_convert_list, var_location, withdrawal_fee, crypto_prices,
                   commission_matrix, balance_dict, price, transit_price_matrix,
                   vol_matrix, changeable, xs, path, objective_value, obj, trace,
                   fetch_errors>>
    /\ UNCHANGED <<avars, evars, uvars>>

NextParams == PathOptimizerInit

\* before __init__ runs: the configuration is what the class says, None
InitParams ==
    /\ exchanges = PairExchanges
    /\ params \in ParamLists
    /\ path_length = NoNumber
    /\ refresh_time = NoNumber
    /\ consider_init_bal = FALSE
    /\ required_currencies = <<>>
    /\ Unstarted

SpecParams == InitParams /\ [][NextParams]_vars

-----------------------------------------------------------------------------
(* TradeExecutor: execute, its task threads and the withdrawals *)

\* the longest solution handed to execute
MaxLegs == 4

\* the keys a solution is made of: three orders within an exchange and two
\* transfers between exchanges
TradeKeys ==
    {<< <<"X", "A">>, <<"X", "B">> >>, << <<"X", "B">>, <<"X", "A">> >>,
     << <<"Y", "A">>, <<"Y", "B">> >>,
     << <<"X", "A">>, <<"Y", "A">> >>, << <<"Y", "B">>, <<"X", "B">> >>}

\* an OrderedDict: no key twice
ExecSolutions ==
    {sol \in UNION {[1 .. n -> TradeKeys] : n \in 1 .. MaxLegs} :
        \A j, k \in DOMAIN sol : j # k => sol[j] # sol[k]}

\* first_exc == sec_exc
same_exchange(key) == key[1][1] = key[2][1]

\* a transfer that leaves the task number as it is
same_task_num(task_num) == task_num

\* task_num += 1
next_task_num(task_num) == task_num + 1

\* task_assign from leg k on: an order joins the task of the current number, a
\* transfer joins 'inter_ex' and starts the next number
RECURSIVE task_assign(_, _, _, _)
task_assign(sol, k, task_num, t) ==
    IF k > Len(sol) THEN t
    ELSE IF same_exchange(sol[k])
    THEN task_assign(sol, k + 1, task_num,
             [t EXCEPT !.intra =
                 IF task_num \in DOMAIN t.intra
                 THEN [t.intra EXCEPT ![task_num] = Append(@, k)]
                 ELSE [n \in DOMAIN t.intra \cup {task_num} |->
                          IF n = task_num THEN <<k>> ELSE t.intra[n]]])
    ELSE task_assign(sol, k + 1, next_task_num(task_num),
             [t EXCEPT !.inter_ex = Append(@, k)])

\* the keys of self.tasks other than 'inter_ex', in the order of the dict
RECURSIVE Ascending(_)
Ascending(S) ==
    IF S = {} THEN <<>>
    ELSE LET m == CHOOSE m \in S : \A o \in S : m <= o
         IN  <<m>> \o Ascending(S \ {m})

input_params(t) == Ascending(DOMAIN t.intra)

\* the trade list of thread i
trade_list(i) == tasks.intra[input_params(tasks)[i]]

\* execute up to the start of the threads: task_assign, then one thread for
\* each task of orders
ExecuteStart ==
    /\ stage = "idle"
    /\ \E sol \in ExecSolutions :
          LET t == task_assign(sol, 1, 0, [intra |-> <<>>, inter_ex |-> <<>>])
          IN  /\ exec_solution' = sol
              /\ tasks' = t
              /\ threads' = [i \in DOMAIN input_params(t) |-> [pos |-> 1, at |-> "check"]]
              /\ orders' = [k \in DOMAIN sol |-> "none"]
    /\ event' = FALSE
    /\ outputList' = <<>>
    /\ withdrawals' = <<>>
    /\ stage' = "threads"
    /\ UNCHANGED <<pvars, avars, uvars>>

\* killable_eachThread: func returned output, the thread ends
thread_ends(i, output) ==
    /\ threads' = [threads EXCEPT ![i].at = "done"]
    /\ outputList' = Append(outputList, <<i - 1, output>>)

\* single_task: "if not event.isSet()"
ThreadCheck(i) ==
    /\ stage = "threads"
    /\ threads[i].at = "check"
    /\ IF event
       THEN thread_ends(i, "False")
       ELSE /\ threads' = [threads EXCEPT ![i].at = "trade"]
            /\ UNCHANGED outputList
    /\ UNCHANGED <<exec_solution, tasks, event, orders, withdrawals, stage>>
    /\ UNCHANGED <<pvars, avars, uvars>>

\* single_task: execute_trade of an order: it is closed in time, or cancelled
\* after the waiting time, or placing or polling it raises
ThreadTrade(i) ==
    /\ stage = "threads"
    /\ threads[i].at = "trade"
    /\ \E outcome \in {"closed", "cancelled", "raised"} :
          /\ orders' = [orders EXCEPT ![trade_list(i)[threads[i].pos]] = outcome]
          /\ CASE outcome = "closed" ->
                     IF threads[i].pos = Len(trade_list(i))
                     THEN thread_ends(i, "True")
                     ELSE /\ threads' = [threads EXCEPT ![i] =
                                             [pos |-> @.pos + 1, at |-> "check"]]
                          /\ UNCHANGED outputList
               [] outcome = "cancelled" ->
                     /\ threads' = [threads EXCEPT ![i].at = "set"]
                     /\ UNCHANGED outputList
               [] outcome = "raised" ->
                     \* the except clause of killable_eachThread
                     thread_ends(i, "None")
    /\ UNCHANGED <<exec_solution, tasks, event, withdrawals, stage>>
    /\ UNCHANGED <<pvars, avars, uvars>>

\* single_task: "if not succeed: event.set()", and on to the next trade
ThreadSet(i) ==
    /\ stage = "threads"
    /\ threads[i].at = "set"
    /\ event' = TRUE
    /\ IF threads[i].pos = Len(trade_list(i))
       THEN thread_ends(i, "False")
       ELSE /\ threads' = [threads EXCEPT ![i] = [pos |-> @.pos + 1, at |-> "check"]]
            /\ UNCHANGED outputList
    /\ UNCHANGED <<exec_solution, tasks, orders, withdrawals, stage>>
    /\ UNCHANGED <<pvars, avars, uvars>>

\* sorted(outputList), then the outputs alone
succeed == [i \in DOMAIN threads |->
               LET k == CHOOSE k \in DOMAIN outputList : outputList[k][1] = i - 1
               IN  outputList[k][2]]

\* any(succeed)
any(outs) == \E k \in DOMAIN outs : outs[k] = "True"

\* all(succeed): None and False are falsy
all(outs) == \A k \in DOMAIN outs : outs[k] = "True"

\* execute after the join of every thread
ExecuteJoin ==
    /\ stage = "threads"
    /\ \A i \in DOMAIN threads : threads[i].at = "done"
    /\ stage' = IF all(succeed) /\ tasks.inter_ex # <<>> THEN "withdrawing"
                ELSE "returned"
    /\ UNCHANGED <<exec_solution, tasks, event, threads, outputList, orders,
                   withdrawals>>
    /\ UNCHANGED <<pvars, avars, uvars>>

\* execute: the next trade of 'inter_ex'; the withdrawal is issued or
\* inter_exc_trade raises before it
ExecuteWithdraw ==
    /\ stage = "withdrawing"
    /\ \E outcome \in {"issued", "raised"} :
          IF outcome = "issued"
          THEN /\ withdrawals' = Append(withdrawals, tasks.inter_ex[Len(withdrawals) + 1])
               /\ stage' = IF Len(withdrawals) + 1 = Len(tasks.inter_ex)
                           THEN "returned" ELSE "withdrawing"
          ELSE /\ stage' = "raised"
               /\ UNCHANGED withdrawals
    /\ UNCHANGED <<exec_solution, tasks, event, threads, outputList, orders>>
    /\ UNCHANGED <<pvars, avars, uvars>>

NextExec ==
    \/ ExecuteStart
    \/ \E i \in DOMAIN threads : ThreadCheck(i)
    \/ \E i \in DOMAIN threads : ThreadTrade(i)
    \/ \E i \in DOMAIN threads : ThreadSet(i)
    \/ ExecuteJoin
    \/ ExecuteWithdraw

InitExec == InitFetch

SpecExec == InitExec /\ [][NextExec]_vars

-----------------------------------------------------------------------------
(* utils.multiThread and eachThread *)

\* the input list has at most MaxInputs elements
MaxInputs == 3

\* threadNum is at most MaxThreads
MaxThreads == 3

\* func returns a value for the inputs "a" and "b" and raises for "boom"
Inputs == {"a", "b", "boom"}

InputLists == UNION {[1 .. n -> Inputs] : n \in 0 .. MaxInputs}

func_raises(x) == x = "boom"

func(x) == IF x = "a" THEN "fa" ELSE "fb"

\* range(i, len, step), as a sequence
range(i, len, step) ==
    [k \in 1 .. ((len - i + step - 1) \div step) |-> i + (k - 1) * step]

\* num of the thread started as the i-th (the first has i = 1)
num(i) == range(i - 1, Len(List), threadNum)

\* multiThread: List = list(List), localVar, outputList = [], line = []
MultiThreadCall ==
    /\ mt_stage = "idle"
    /\ \E l \in InputLists, n \in 1 .. MaxThreads :
          /\ List' = l
          /\ threadNum' = n
    /\ line' = <<>>
    /\ appended' = <<>>
    /\ mt_stage' = "starting"
    /\ UNCHANGED <<returned, coin_sets, response, gcp_output, gcp_raised, gcp_stage>>
    /\ UNCHANGED <<pvars, avars, evars>>

\* multiThread: line.append(t); t.start(), once per thread
ThreadStart ==
    /\ mt_stage = "starting"
    /\ line' = Append(line, 0)
    /\ mt_stage' = IF Len(line) + 1 = threadNum THEN "joining" ELSE "starting"
    /\ UNCHANGED <<List, threadNum, appended, returned,
                   coin_sets, response, gcp_output, gcp_raised, gcp_stage>>
    /\ UNCHANGED <<pvars, avars, evars>>

\* eachThread: one pass of the loop in thread i
EachThread(i) ==
    /\ line[i] < Len(num(i))
    /\ LET n == num(i)[line[i] + 1]
           x == List[n + 1]
       IN  appended' = Append(appended, <<n, IF func_raises(x) THEN None ELSE func(x)>>)
    /\ line' = [line EXCEPT ![i] = @ + 1]
    /\ UNCHANGED <<List, threadNum, returned, mt_stage,
                   coin_sets, response, gcp_output, gcp_raised, gcp_stage>>
    /\ UNCHANGED <<pvars, avars, evars>>

\* the list as it was appended to
as_appended(outs) == outs

\* sorted(outputList, key=lambda x: x[0])
RECURSIVE sorted_by_num(_)
sorted_by_num(outs) ==
    IF outs = <<>> THEN <<>>
    ELSE LET k == CHOOSE k \in DOMAIN outs :
                      \A j \in DOMAIN outs :
                          outs[k][1] < outs[j][1] \/ (outs[k][1] = outs[j][1] /\ k <= j)
         IN  <<outs[k]>> \o sorted_by_num(SubSeq(outs, 1, k - 1)
                                           \o SubSeq(outs, k + 1, Len(outs)))

\* multiThread: every t.join() has returned; sort, keep x[1], return
MultiThreadReturn ==
    /\ mt_stage = "joining"
    /\ \A i \in DOMAIN line : line[i] = Len(num(i))
    /\ returned' = [k \in DOMAIN appended |-> sorted_by_num(appended)[k][2]]
    /\ mt_stage' = "returned"
    /\ UNCHANGED <<List, threadNum, line, appended,
                   coin_sets, response, gcp_output, gcp_raised, gcp_stage>>
    /\ UNCHANGED <<pvars, avars, evars>>

NextThreads ==
    \/ MultiThreadCall
    \/ ThreadStart
    \/ \E i \in DOMAIN line : EachThread(i)
    \/ MultiThreadReturn

SpecThreads == InitFetch /\ [][NextThreads]_vars

-----------------------------------------------------------------------------
(* utils.get_crypto_prices: the requests to the price oracle and its answers *)

\* a chain of calls is followed for at most MaxRequests requests
MaxRequests == 3

\* the characters of a symbol: capitals and digits, small letters, others
Capitals == {"A", "B"}
Smalls   == {"a"}

\* the symbols, each a sequence of characters
Symbols == {<<"A">>, <<"B">>, <<"a", "B">>, <<"$", "A">>}

\* str.isalnum
isalnum(sym) == \A k \in DOMAIN sym : sym[k] \in Capitals \cup Smalls

\* re.findall(r'[0-9A-Z]+', sym) from character k on, run being the match so far
RECURSIVE findall(_, _, _)
findall(sym, k, run) ==
    LET found == IF run = <<>> THEN {} ELSE {run}
    IN  IF k > Len(sym) THEN found
        ELSE IF sym[k] \in Capitals THEN findall(sym, k + 1, Append(run, sym[k]))
        ELSE found \cup findall(sym, k + 1, <<>>)

\* re.findall(r'[0-9A-Z]+', msg.split(':')[-1]), msg listing the symbols of named
not_avail_coins(named) == UNION {findall(sym, 1, <<>>) : sym \in named}

\* the price the oracle quotes, per symbol
Quote == 1

\* what the oracle may answer to a request for the symbols of req
OracleResponses(req) ==
    {[status_code |-> 200, json |-> j, named |-> {}, data |-> d] :
        j \in BOOLEAN, d \in SUBSET req}
    \cup {[status_code |-> 400, json |-> j, named |-> n, data |-> {}] :
              j \in BOOLEAN, n \in SUBSET Symbols}
    \cup {[status_code |-> 500, json |-> j, named |-> {}, data |-> {}] : j \in BOOLEAN}

Last(seq) == seq[Len(seq)]

\* get_crypto_prices(coin_set): the outermost call, up to session.get
GetCryptoPrices ==
    /\ gcp_stage = "idle"
    /\ \E coin_set \in SUBSET Symbols :
          coin_sets' = << {i \in coin_set : isalnum(i)} >>
    /\ gcp_stage' = "requested"
    /\ UNCHANGED <<response, gcp_output, gcp_raised>>
    /\ UNCHANGED <<List, threadNum, line, appended, returned, mt_stage>>
    /\ UNCHANGED <<pvars, avars, evars>>

\* the oracle answers the innermost call: json.loads, then response.ok, 400
\* with the recursive call up to its session.get, or ConnectionError
Respond ==
    /\ gcp_stage = "requested"
    /\ \E r \in OracleResponses(Last(coin_sets)) :
          /\ response' = r
          /\ IF ~r.json
             THEN /\ gcp_raised' = "JSONDecodeError"
                  /\ gcp_stage' = "raised"
                  /\ UNCHANGED <<coin_sets, gcp_output>>
             ELSE IF r.status_code = 200
             THEN /\ gcp_output' = {<<c, Quote>> : c \in r.data}
                  /\ gcp_stage' = "returned"
                  /\ UNCHANGED <<coin_sets, gcp_raised>>
             ELSE IF r.status_code = 400
             THEN /\ Len(coin_sets) < MaxRequests
                  /\ LET new_coin_set == Last(coin_sets) \ not_avail_coins(r.named)
                     IN  coin_sets' = Append(coin_sets,
                                             {i \in new_coin_set : isalnum(i)})
                  /\ UNCHANGED <<gcp_output, gcp_raised, gcp_stage>>
             ELSE /\ gcp_raised' = "ConnectionError"
                  /\ gcp_stage' = "raised"
                  /\ UNCHANGED <<coin_sets, gcp_output>>
    /\ UNCHANGED <<List, threadNum, line, appended, returned, mt_stage>>
    /\ UNCHANGED <<pvars, avars, evars>>

NextPrices == GetCryptoPrices \/ Respond

SpecPrices == InitFetch /\ [][NextPrices]_vars

-----------------------------------------------------------------------------
(* Claims about PathOptimizer, checked under Spec *)

\* the last call of find_arbitrage returned
Completed == run_times > 0 /\ raised = "none"

\* the cells of xs that are not zero, as pairs of nodes
SelectedEdges ==
    {<<index2currency[e[1]], index2currency[e[2]]>> : e \in {c \in DOMAIN xs : xs[c] = 1}}

InterExchange(edge) == edge[1][1] # edge[2][1]

FundedNodes ==
    {n \in DOMAIN balance_dict : balance_dict[n].usd_balance >= min_trading_limit}

\* p lists the edges of sel, each once, head to tail, as one simple cycle
SingleCycle(p, sel) ==
    /\ Len(p) = Cardinality(sel)
    /\ Range(p) = sel
    /\ \A k \in DOMAIN p : p[k][2] = p[(k % Len(p)) + 1][1]
    /\ \A j, k \in DOMAIN p : j # k => p[j][1] # p[k][1]

\* C1: after a call in which the solver selects an edge, the selected edges are
\* one simple cycle of at most path_length edges and path lists all of them
C1_OneCycleInPath ==
    (Completed /\ SelectedEdges # {}) =>
        /\ SingleCycle(path, SelectedEdges)
        /\ Len(path) <= path_length

\* C2: in every assignment that satisfies the constraints of the model, and in
\* the one the solver returned, each node has as many selected outgoing edges
\* as selected incoming edges
C2_FlowConserved ==
    run_times > 0 =>
        /\ \A s \in Feasible(var_location, Cardinality(currency_set), path_length,
                            changeable) :
              \A c \in Idx(currency2index) :
                  Cardinality({d \in Idx(currency2index) : <<c, d>> \in s})
                      = Cardinality({d \in Idx(currency2index) : <<d, c>> \in s})
        /\ raised = "none" =>
              \A n \in currency_set :
                  Cardinality({e \in SelectedEdges : e[1] = n})
                      = Cardinality({e \in SelectedEdges : e[2] = n})

\* a cycle was selected although the other exchange offered nothing
C2_Witness == Completed /\ Len(path) >= 3

\* C3: every selected edge has a nonzero transit price, a volume of at least
\* min_trading_limit and, between exchanges, a source with a withdrawal fee
C3_SelectedEdgesFinite ==
    Completed =>
        \A e \in DOMAIN xs :
            xs[e] = 1 =>
                /\ transit_price_matrix[e] # 0
                /\ vol_matrix[e] >= min_trading_limit
                /\ InterExchange(<<index2currency[e[1]], index2currency[e[2]]>>)
                       => index2currency[e[1]] \in DOMAIN withdrawal_fee

\* a transfer between exchanges is selected while another variable's edge is
\* shut out by its price or its volume
C3_Witness ==
    /\ Completed
    /\ \E e \in SelectedEdges : InterExchange(e)
    /\ \E c \in VarCells(var_location) :
           transit_price_matrix[c] = 0 \/ vol_matrix[c] < min_trading_limit

\* C4: with consider_init_bal, when some node is funded and a path is returned,
\* the path starts at a funded node and required_currencies is the list of the
\* funded nodes by falling USD balance, whatever list the constructor was given
C4_StartsAtFundedNode ==
    (Completed /\ consider_init_bal /\ FundedNodes # {} /\ path # <<>>) =>
        /\ path[1][1] \in FundedNodes
        /\ Range(required_currencies) = FundedNodes
        /\ Len(required_currencies) = Cardinality(FundedNodes)
        /\ \A j, k \in DOMAIN required_currencies :
               j < k => balance_dict[required_currencies[j]].usd_balance
                            >= balance_dict[required_currencies[k]].usd_balance

\* C9: with consider_init_bal, after each call the model holds the 'changeable'
\* constraint exactly when some node is funded, built from the funded nodes
C9_ChangeableTracksFunded ==
    (Completed /\ consider_init_bal) =>
        /\ changeable.present <=> FundedNodes # {}
        /\ changeable.present =>
               changeable.index = {currency2index[n] : n \in FundedNodes}

\* C10: call n fetches withdrawal fees, reference prices and commissions exactly
\* when n mod refresh_time = 0, and leaves them alone otherwise; balance,
\* transit prices and volumes are rebuilt in every call, before the solver
Before(a, b) ==
    \E j, k \in DOMAIN trace : j < k /\ trace[j] = a /\ trace[k] = b

C10_RefreshPolicy ==
    /\ [](Completed =>
            /\ \A r \in {"update_withdrawal_fee", "update_ref_coin_price",
                         "update_commission_fee"} :
                   r \in Range(trace) <=> (run_times - 1) % refresh_time = 0
            /\ \A r \in {"update_balance", "update_transit_price",
                         "update_vol_matrix"} : Before(r, "solve"))
    /\ [][(run_times' = run_times + 1 /\ run_times % refresh_time # 0) =>
            UNCHANGED <<withdrawal_fee, crypto_prices, commission_matrix>>]_vars

\* the third call refreshed after the second did not
C10_Witness == Completed /\ run_times = 3 /\ refresh_time = 2

-----------------------------------------------------------------------------
(* Claims about AmtOptimizer, checked under SpecAmt *)

\* the last get_solution returned
AmtSolved == amt_raised = "none"

\* the assignments the claims speak of: every feasible one, and the solver's
Solutions == feasible_set \cup {solution}

ChosenLayers(s, i) == {k \in 1 .. orderbook_n : s[i].y[k] = 1}

\* C5: in every solution each leg has exactly one layer with y = 1, and x and
\* z are zero on every other layer of the leg
C5_OneLayerPerLeg ==
    AmtSolved =>
        \A s \in Solutions : \A i \in DOMAIN amt_path :
            /\ Cardinality(ChosenLayers(s, i)) = 1
            /\ \A k \in (1 .. orderbook_n) \ ChosenLayers(s, i) :
                   s[i].x[k] = 0 /\ s[i].x[k] * precision_matrix[i] = 0

\* a path of three legs or more was solved with a profit, a leg trading at the
\* second layer of its book
C5_Witness ==
    /\ AmtSolved
    /\ Len(amt_path) >= 3
    /\ amt_objective_value > 0
    /\ \E i \in DOMAIN amt_path : solution[i].y[2] = 1 /\ solution[i].x[2] > 0

\* the side of the fetched book that leg i trades against
BookSide(i) ==
    IF reverse_list[i] THEN fetched_order_book_list[i].asks
    ELSE fetched_order_book_list[i].bids

\* the size of layers 1 .. k of the book of leg i
RECURSIVE CumulativeSize(_, _)
CumulativeSize(i, k) ==
    IF k = 0 THEN 0
    ELSE (IF k <= Len(BookSide(i)) THEN BookSide(i)[k][2] ELSE 0) + CumulativeSize(i, k - 1)

\* C6: in every solution the amount at the chosen layer k of a leg is at most
\* trade_amt_ptc times amt_matrix[p, k], which is at most the cumulative size of
\* layers 0..k of the leg's book, and, for a transfer between exchanges, big_m
\* at layer 0 and zero elsewhere
C6_WithinCumulativeDepth ==
    AmtSolved =>
        \A s \in Solutions : \A i \in DOMAIN amt_path : \A k \in ChosenLayers(s, i) :
            /\ s[i].x[k] * precision_matrix[i] <= trade_amt_ptc * amt_matrix[i][k]
            /\ IF amt_path[i][1][1] # amt_path[i][2][1]
               THEN amt_matrix[i][k] = (IF k = 1 THEN big_m ELSE 0)
               ELSE /\ amt_matrix[i][k] <= CumulativeSize(i, k)
                    /\ k <= Len(BookSide(i)) => amt_matrix[i][k] = CumulativeSize(i, k)

\* a leg trades, at the second layer, more than the first layer alone holds,
\* on a path that also has a transfer between exchanges
C6_Witness ==
    /\ AmtSolved
    /\ \E i \in DOMAIN amt_path : amt_path[i][1][1] # amt_path[i][2][1]
    /\ \E i \in DOMAIN amt_path :
           /\ amt_path[i][1][1] = amt_path[i][2][1]
           /\ solution[i].y[2] = 1
           /\ solution[i].x[2] * precision_matrix[i] > BookSide(i)[1][2]

\* what leg i takes in and what it gives out (as a fixed-point number of unit One)
LegAmount(s, i) ==
    SumOver(1 .. orderbook_n, [k \in 1 .. orderbook_n |-> s[i].x[k] * precision_matrix[i]])

LegValue(s, i) ==
    SumOver(1 .. orderbook_n,
            [k \in 1 .. orderbook_n |-> s[i].x[k] * precision_matrix[i] * price_matrix[i][k]])

LegInput(s, i) == IF reverse_list[i] THEN LegValue(s, i) ELSE LegAmount(s, i)

LegOutput(s, i) ==
    IF amt_path[i][1][1] # amt_path[i][2][1]
    THEN (LegAmount(s, i) - withdrawal_fee[amt_path[i][1]].coin_fee) * One
    ELSE IF reverse_list[i] THEN LegAmount(s, i) * (One - path_commission[i])
    ELSE LegValue(s, i) * (One - path_commission[i])

\* C7: in every solution the input of each leg after the first is at most the
\* output of the leg before it
C7_LegsCoupled ==
    AmtSolved =>
        \A s \in Solutions : \A i \in DOMAIN amt_path :
            i >= 2 => LegInput(s, i) * One <= LegOutput(s, i - 1)

\* a profitable solution of a path with a transfer, a reversed and a
\* non-reversed trade
C7_Witness ==
    /\ AmtSolved
    /\ amt_objective_value > 0
    /\ \E i \in DOMAIN amt_path : amt_path[i][1][1] # amt_path[i][2][1]
    /\ \E i \in DOMAIN amt_path : reverse_list[i]
    /\ \E i \in DOMAIN amt_path :
           ~reverse_list[i] /\ amt_path[i][1][1] = amt_path[i][2][1]

\* the forward simulation of the emitted legs from leg k on; hold is what the
\* simulation holds: a node, an amount of it (unit One), and whether every leg
\* so far found what it needed
RECURSIVE Forward(_, _, _)
Forward(legs, k, hold) ==
    IF k > Len(legs) THEN hold
    ELSE LET e     == legs[k]
             sell  == e.direction = "bid_sell"
             from  == IF sell THEN e.trade[1] ELSE e.trade[2]
             to    == IF sell THEN e.trade[2] ELSE e.trade[1]
             c     == commission_matrix[<<currency2index[from], currency2index[to]>>]
             need  == IF sell THEN e.vol ELSE e.vol * e.price
             out   == IF from[1] # to[1]
                      THEN (e.vol - withdrawal_fee[from].coin_fee) * One
                      ELSE IF sell THEN e.vol * e.price * (One - c)
                      ELSE e.vol * (One - c)
         IN  IF hold.ok /\ hold.node = from /\ need * One <= hold.amount
             THEN Forward(legs, k + 1, [node |-> to, amount |-> out, ok |-> TRUE])
             ELSE [hold EXCEPT !.ok = FALSE]

\* C8: when the objective is > 0, the emitted legs, executed in order from pay
\* units of the start node, never need more than the leg before produced and
\* end with at least pay + objective * amplifier units of the start node
C8_ForwardSimulation ==
    (AmtSolved /\ amt_objective_value > 0) =>
        LET start == amt_path[1][1]
            paid  == LegInput(solution, 1)
            end   == Forward(trade_solution, 1,
                             [node |-> start, amount |-> paid * One, ok |-> TRUE])
        IN  /\ end.ok
            /\ end.node = start
            /\ end.amount * AmplifierInv >= paid * One * AmplifierInv + amt_objective_value

\* C8 where every leg of the path has an entry of its own in trade_solution
C8_DistinctKeysOnly ==
    (AmtSolved /\ amt_objective_value > 0 /\ Len(trade_solution) = Len(amt_path)) =>
        C8_ForwardSimulation

-----------------------------------------------------------------------------
(* Claims about find_arbitrage when nothing is found, checked under SpecAnyLength *)

\* the solver left every cell of xs at zero: it returned no solution object
\* (xs is reset before the values are read) or a solution without an edge
NoEdgeSelected == \A e \in DOMAIN xs : xs[e] = 0

\* what every call of find_arbitrage is seen by: calls counted, exception, routines run
call_record == <<run_times, raised, trace>>

\* C11: a call of find_arbitrage in which the solver returns no solution or
\* selects no edge ends without an exception, with path = [], obj = 0,
\* have_opportunity() false and run_times incremented
C11_NothingFoundEndsNormally ==
    [][NoEdgeSelected' =>
          /\ raised' = "none"
          /\ path' = <<>>
          /\ obj' = 0
          /\ ~have_opportunity'
          /\ run_times' = run_times + 1]_call_record

\* C11 for the calls in which the solver returned a solution object
C11_EmptySolutionOnly ==
    [][(NoEdgeSelected' /\ raised' # "AttributeError") =>
          /\ raised' = "none"
          /\ path' = <<>>
          /\ obj' = 0
          /\ ~have_opportunity'
          /\ run_times' = run_times + 1]_call_record

-----------------------------------------------------------------------------
(* Claims about what get_solution leaves behind, checked under SpecAmt *)

\* the amount model of the last get_solution had no solution
AmtInfeasible == amt_raised = "AttributeError"

\* C12: after get_solution, trade_solution is empty and
\* have_workable_solution() is false whenever the amount model is infeasible
\* or its objective is <= 0
C12_EmptyUnlessProfitable ==
    /\ AmtInfeasible => trade_solution = <<>>
    /\ (AmtSolved /\ amt_objective_value <= 0) =>
           trade_solution = <<>> /\ ~have_workable_solution

\* C12 without the emptiness of trade_solution: have_workable_solution() is
\* false whenever the objective is <= 0, and an infeasible model leaves
\* trade_solution empty
C12_NotWorkableUnlessProfitable ==
    /\ AmtInfeasible => trade_solution = <<>>
    /\ (AmtSolved /\ amt_objective_value <= 0) => ~have_workable_solution

-----------------------------------------------------------------------------
(* Claims about a fetch that fails, checked under SpecFetch *)

\* the cells of a matrix on the pairs of one exchange
ExchangeCells(e) ==
    {c \in DOMAIN var_location :
        /\ var_location[c]
        /\ index2currency[c[1]][1] = e /\ index2currency[c[2]][1] = e}

\* C13: when the ticker fetch or the balance fetch of one exchange raises during
\* find_arbitrage, the call still ends without an exception, after solving,
\* with the data of the other exchanges; the failed exchange has no balance,
\* or its edges have price zero
C13_FetchFailureTolerated ==
    fetch_errors # {} =>
        /\ raised = "none"
        /\ "solve" \in Range(trace)
        /\ \A f \in fetch_errors :
               /\ f[1] = "balance" => \A n \in DOMAIN balance_dict : n[1] # f[2]
               /\ f[1] = "tickers" =>
                      \A c \in ExchangeCells(f[2]) : transit_price_matrix[c] = 0

-----------------------------------------------------------------------------
(* Claims about the amount precision, checked under SpecAmt *)

\* the markets, as pairs of nodes, whose precision record has no 'amount'
NoAmountPrecision ==
    UNION {{<<<<e, m[1]>>, <<e, m[2]>>>> :
               m \in {k \in exchanges[e].markets : exchanges[e].precision[k] = NoNumber}} :
           e \in DOMAIN exchanges}

\* C14: an AmtOptimizer built as AmtOptimizer(path_optimizer, orderbook_n) gives
\* every market without an amount precision the precision 3; a leg on such a
\* market has the step 10^-3 in precision_matrix and its emitted volume is a
\* multiple of that step
C14_DefaultPrecisionIsThree ==
    orderbook_n # NoNumber =>
        /\ \A k \in NoAmountPrecision : precision[k] = 3
        /\ amt_raised # None =>
               \A i \in DOMAIN amt_path :
                   trade_pair(amt_path[i], reverse_list[i]) \in NoAmountPrecision =>
                       /\ amt_raised # "TypeError"
                       /\ precision_matrix[i] = Pow10(5 - 3)
                       /\ \A j \in DOMAIN trade_solution :
                              trade_solution[j].trade = trade_pair(amt_path[i], reverse_list[i])
                                  => trade_solution[j].vol % Pow10(5 - 3) = 0

\* C14 weakened to what the first get_solution on such a market does: it
\* assigns path, commissions, order books and reverse_list and then raises
C14_GetSolutionRaises ==
    (orderbook_n # NoNumber /\ amt_raised # None) =>
        ((\E i \in DOMAIN amt_path :
              trade_pair(amt_path[i], reverse_list[i]) \in NoAmountPrecision)
         <=> amt_raised = "TypeError")

-----------------------------------------------------------------------------
(* Claims about the constructor, checked under SpecParams *)

\* the configuration options the documentation enumerates
Options ==
    {"path_length", "include_fiat", "inter_exchange_trading", "interex_trading_size",
     "min_trading_limit", "refresh_time", "consider_init_bal",
     "consider_inter_exc_bal", "simulated_bal", "required_currencies", "trading_fee",
     "fiat_set"}

Constructed == path_length # NoNumber

\* C15: a constructor given a keyword that is none of the enumerated options
\* raises ValueError and sets no attribute from that keyword
C15_UnknownKeywordRejected ==
    (Constructed /\ \E k \in DOMAIN params : params[k][1] \notin Options) =>
        /\ raised = "ValueError"
        /\ \A k \in DOMAIN params : params[k][1] = "run_times" => run_times = 0

\* C15 for the keywords that name no attribute of the class
C15_NonAttributeRejected ==
    (Constructed /\ \E k \in DOMAIN params : params[k][1] \notin Attributes) =>
        raised = "ValueError"

-----------------------------------------------------------------------------
(* Claims about TradeExecutor.execute, checked under SpecExec *)

IntraLegs == {k \in DOMAIN exec_solution : same_exchange(exec_solution[k])}
InterLegs == {k \in DOMAIN exec_solution : ~same_exchange(exec_solution[k])}

\* C16: a withdrawal is issued only after every task thread has ended and only
\* if every order of the solution was placed and closed; the withdrawals are
\* issued in the order of the solution
C16_WithdrawAfterAllOrdersClosed ==
    withdrawals # <<>> =>
        /\ \A i \in DOMAIN threads : threads[i].at = "done"
        /\ \A k \in IntraLegs : orders[k] = "closed"
        /\ withdrawals = SubSeq(Ascending(InterLegs), 1, Len(withdrawals))

\* two tasks ran their orders and both transfers of the solution were issued
C16_Witness ==
    /\ stage = "returned"
    /\ Len(threads) = 2
    /\ Len(withdrawals) = 2

\* a thread has left a failed trade behind: the order was cancelled and the
\* thread went on, or placing or polling it raised and the thread ended
FailureBehind ==
    \E i \in DOMAIN threads : \E p \in DOMAIN trade_list(i) :
        /\ orders[trade_list(i)[p]] \in {"cancelled", "raised"}
        /\ ~(threads[i].pos = p /\ threads[i].at = "set")

\* a thread finds the event clear and goes on to trade
CheckPasses ==
    \E i \in DOMAIN threads :
        /\ threads[i].at = "check"
        /\ i \in DOMAIN threads' /\ threads'[i].at = "trade"

\* C17: once a trade of a task has failed, by cancellation or by an exception,
\* the event is set and no task goes on to another trade
C17_FailureStopsEveryTask ==
    [][FailureBehind => (event /\ ~CheckPasses)]_evars

\* C17 for the failures by cancellation
C17_CancellationStopsEveryTask ==
    [][(\E k \in DOMAIN orders : orders[k] = "cancelled" /\ FailureBehind
          /\ \A j \in DOMAIN orders : orders[j] # "raised")
       => (event /\ ~CheckPasses)]_evars

-----------------------------------------------------------------------------
(* Claims about what get_solution leaves alone, checked under SpecAmt *)

\* C18: get_solution (the steps that count in solve_times) leaves path,
\* withdrawal_fee, commission_matrix, balance_dict, currency2index and exchanges
\* of the PathOptimizer as they were
C18_PathOptimizerUntouched ==
    [][solve_times' # solve_times =>
          UNCHANGED <<path, withdrawal_fee, commission_matrix, balance_dict,
                      currency2index, exchanges>>]_solve_times

\* get_solution returned on a path with a transfer between exchanges whose
\* balances it looked up
C18_Witness ==
    /\ AmtSolved
    /\ \E i \in DOMAIN amt_path : amt_path[i][1][1] # amt_path[i][2][1]
    /\ balance_lookups(amt_path) \cap DOMAIN balance_dict # {}
    /\ \E e \in DOMAIN balance_vol : \E n \in DOMAIN balance_vol[e] :
           balance_vol[e][n] > 0

-----------------------------------------------------------------------------
(* Claims about consider_init_bal = False, checked under Spec *)

\* what update_changeable_constraint maintains
required_constraint == <<required_currencies, changeable>>

\* C19: with consider_init_bal = False no call of find_arbitrage adds the
\* 'changeable' constraint, and required_currencies keeps its configured value
C19_NoChangeableWithoutInitBal ==
    [][~consider_init_bal =>
           /\ ~changeable'.present
           /\ required_currencies' = required_currencies]_required_constraint

\* three calls were made without consider_init_bal, the last one with funded
\* nodes other than the configured ones
C19_Witness ==
    /\ ~consider_init_bal
    /\ Completed /\ run_times = 3
    /\ FundedNodes # {}
    /\ FundedNodes # Range(required_currencies)

-----------------------------------------------------------------------------
(* Claims about the node indexing of _run_time_init, checked under Spec *)

\* C20: once _run_time_init has run, currency2index maps the node set
\* currency_set onto 0 .. length - 1, index2currency maps the indices back, and
\* each is the inverse of the other
C20_IndexMapsInverse ==
    trace # <<>> =>
        /\ DOMAIN currency2index = currency_set
        /\ DOMAIN index2currency = 0 .. (Cardinality(currency_set) - 1)
        /\ \A c \in currency_set : index2currency[currency2index[c]] = c
        /\ \A i \in DOMAIN index2currency : currency2index[index2currency[i]] = i

\* a call returned on the three-exchange graph, whose nodes were enumerated in
\* another order than that of their names
C20_Witness ==
    /\ Completed
    /\ Cardinality(currency_set) > 4
    /\ \E k \in DOMAIN SortByRank(currency_set) :
           currency2index[SortByRank(currency_set)[k]] # k - 1

-----------------------------------------------------------------------------
(* Claims about the one-time setup, checked under SpecFetch *)

\* C21: _run_time_init runs in the first call of find_arbitrage and in no
\* later call, also when an earlier call ended with an exception
C21_SetupRunsOnce ==
    [][trace # <<>> => "_run_time_init" \notin Range(trace')]_call_record

\* C21 for the calls made after a call that returned
C21_SetupOnceAfterReturn ==
    [][run_times > 0 => "_run_time_init" \notin Range(trace')]_call_record

-----------------------------------------------------------------------------
(* Claims about the entries of trade_solution, checked under SpecAmt *)

\* the key and the direction _get_solution gives the entry of leg i
LegKey(i) == trade_pair(amt_path[i], reverse_list[i])

LegDirection(i) == IF reverse_list[i] THEN "ask_buy" ELSE "bid_sell"

\* the legs the solver gave a nonzero amount
TradedLegs == {i \in DOMAIN amt_path : LegAmount(solution, i) # 0}

\* where trade_solution holds the entry of leg i
EntryOf(i) ==
    {k \in DOMAIN trade_solution :
        /\ trade_solution[k].trade = LegKey(i)
        /\ trade_solution[k].direction = LegDirection(i)}

\* no two legs of the path are given the same key
DistinctKeys == \A i, j \in DOMAIN amt_path : i # j => LegKey(i) # LegKey(j)

\* C24: after get_solution every leg with a nonzero amount has an entry, keyed
\* (from, to) with direction bid_sell when the leg is not reversed and keyed
\* (to, from) with direction ask_buy when it is, and the entries stand in the
\* order of the legs
C24_DirectionAndKeyPerLeg ==
    AmtSolved =>
        /\ \A i \in TradedLegs : EntryOf(i) # {}
        /\ \A i, j \in TradedLegs :
               i < j => \A a \in EntryOf(i), b \in EntryOf(j) : a < b

\* C24 on the paths whose legs have keys of their own
C24_DistinctKeysOnly == (AmtSolved /\ DistinctKeys) => C24_DirectionAndKeyPerLeg

\* C25: when have_workable_solution() holds, trade_solution has one entry for
\* each leg of the path, in the order of the legs
C25_OneEntryPerLeg ==
    (AmtSolved /\ have_workable_solution) =>
        /\ Len(trade_solution) = Len(amt_path)
        /\ \A i \in DOMAIN amt_path : trade_solution[i].trade = LegKey(i)

\* C25 on the paths whose legs have keys of their own
C25_DistinctKeysOnly == (AmtSolved /\ DistinctKeys) => C25_OneEntryPerLeg

-----------------------------------------------------------------------------
(* Claims about task_assign, checked under SpecExec *)

\* the numbered tasks that hold leg k
TasksOf(k) == {n \in DOMAIN tasks.intra : k \in Range(tasks.intra[n])}

\* a transfer lies between the legs j and k of the solution
TransferBetween(j, k) ==
    \E m \in (j + 1) .. (k - 1) : ~same_exchange(exec_solution[m])

\* the legs of a task are legs of the solution, each once, in solution order
InSolutionOrder(legs) ==
    /\ Range(legs) \subseteq DOMAIN exec_solution
    /\ \A a, b \in DOMAIN legs : a < b => legs[a] < legs[b]

\* C28: task_assign puts every transfer in 'inter_ex' and in no numbered
\* task, every order in exactly one numbered task and not in 'inter_ex', two
\* orders in the same numbered task exactly when no transfer lies between
\* them, and every task lists its legs in solution order
C28_EveryLegInOneTask ==
    stage # "idle" =>
        /\ \A k \in DOMAIN exec_solution :
               IF same_exchange(exec_solution[k])
               THEN Cardinality(TasksOf(k)) = 1 /\ k \notin Range(tasks.inter_ex)
               ELSE TasksOf(k) = {} /\ k \in Range(tasks.inter_ex)
        /\ \A j, k \in DOMAIN exec_solution :
               (j < k /\ same_exchange(exec_solution[j]) /\ same_exchange(exec_solution[k]))
                   => ((TasksOf(j) = TasksOf(k)) <=> ~TransferBetween(j, k))
        /\ InSolutionOrder(tasks.inter_ex)
        /\ \A n \in DOMAIN tasks.intra : InSolutionOrder(tasks.intra[n])

\* a solution of four legs was assigned: two orders side by side, a transfer,
\* and an order after it
C28_Witness ==
    /\ stage # "idle"
    /\ Len(exec_solution) = 4
    /\ \E k \in 1 .. 3 : TasksOf(k) = TasksOf(k + 1) /\ TasksOf(k) # {}
    /\ \E j, k \in DOMAIN exec_solution :
           /\ TasksOf(j) # {} /\ TasksOf(k) # {}
           /\ TransferBetween(j, k)

-----------------------------------------------------------------------------
(* Claims about multiThread, checked under SpecThreads *)

\* C22: multiThread returns after every thread has handled all its inputs,
\* and the list it returns has one entry per input, in input order: func of
\* the input, or None where func raised
C22_OneEntryPerInputInOrder ==
    mt_stage = "returned" =>
        /\ Len(line) = threadNum
        /\ \A i \in DOMAIN line : line[i] = Len(num(i))
        /\ Len(returned) = Len(List)
        /\ \A k \in DOMAIN List :
               returned[k] = (IF func_raises(List[k]) THEN None ELSE func(List[k]))

\* three inputs, the second raising, were handled by two threads, and the
\* output of the first input was not the first to be appended
C22_Witness ==
    /\ mt_stage = "returned"
    /\ Len(List) = 3 /\ func_raises(List[2]) /\ ~func_raises(List[3])
    /\ threadNum = 2
    /\ appended[1][1] # 0

-----------------------------------------------------------------------------
(* Claims about get_crypto_prices, checked under SpecPrices *)

\* what a chain of calls of get_crypto_prices is seen by
price_calls == <<coin_sets, response, gcp_output, gcp_raised, gcp_stage>>

\* the oracle has just answered a request
Answered == gcp_stage = "requested" /\ response' \in OracleResponses(Last(coin_sets))

\* the call retried: a further request was made
Retried == Len(coin_sets') = Len(coin_sets) + 1

\* C23: on a 400 answer get_crypto_prices asks again, for the symbols of the
\* request less the symbols named in the error message, and what it returns
\* are the prices of the last answer; on another answer that is not OK it
\* raises ConnectionError and returns nothing
C23_RetryWithoutNamedOrFail ==
    [][Answered =>
          /\ response'.status_code = 400 =>
                 Retried /\ Last(coin_sets') = Last(coin_sets) \ response'.named
          /\ response'.status_code = 500 =>
                 gcp_raised' = "ConnectionError" /\ gcp_output' = {}
          /\ gcp_stage' = "returned" =>
                 gcp_output' = {<<c, Quote>> : c \in response'.data}]_price_calls

\* C23 for the answers with a JSON body that name symbols of capitals and
\* digits only
C23_CapitalSymbolsInJson ==
    [][(Answered /\ response'.json
           /\ \A sym \in response'.named : not_avail_coins({sym}) = {sym}) =>
          /\ response'.status_code = 400 =>
                 Retried /\ Last(coin_sets') = Last(coin_sets) \ response'.named
          /\ response'.status_code = 500 =>
                 gcp_raised' = "ConnectionError" /\ gcp_output' = {}
          /\ gcp_stage' = "returned" =>
                 gcp_output' = {<<c, Quote>> : c \in response'.data}]_price_calls

\* C27: every retry asks for a strictly smaller set of symbols than the
\* request before it
C27_RetrySetsShrink ==
    [][(Answered /\ Retried) =>
          /\ Last(coin_sets') \subseteq Last(coin_sets)
          /\ Last(coin_sets') # Last(coin_sets)]_price_calls

\* C27 without "strictly": a retry never asks for a symbol not asked before
C27_RetrySetsNeverGrow ==
    [][(Answered /\ Retried) => Last(coin_sets') \subseteq Last(coin_sets)]_price_calls

-----------------------------------------------------------------------------
(* Claims about the reference prices, checked under SpecOracle *)

\* C26: after any calls of find_arbitrage the symbol of every node of
\* currency_set has an entry in crypto_prices, and no call ends in a lookup
\* of a missing reference price
C26_EveryNodePriced ==
    trace # <<>> =>
        /\ \A m \in currency_set : m[2] \in DOMAIN crypto_prices
        /\ ~(raised = "KeyError" /\ Last(trace) = "update_balance")

\* C26 right after _run_time_init: the node set is cut down to the priced coins
C26_PricedAfterSetup ==
    (trace # <<>> /\ run_times <= 1 /\ trace[1] = "_run_time_init") =>
        \A m \in currency_set : m[2] \in DOMAIN crypto_prices

====
